---- MODULE Spec2Model ----
(***************************************************************************)
(* Hybrid fan-out timeline engine of the twitter-clone repository:         *)
(* FanoutService (app/services/fanout.py), TimelineService                 *)
(* (app/services/timeline.py), the follow graph (app/services/user.py),    *)
(* the tweet CRUD (app/services/tweet.py), the request handlers of         *)
(* app/api with the session dependency get_db (app/database.py), and the   *)
(* real-time feed: the /ws endpoint (app/main.py) and ConnectionManager    *)
(* with its listener task (app/websocket/manager.py).                      *)
(*                                                                         *)
(* One action is one HTTP request handler, run from the first line of the  *)
(* handler to the commit or rollback of get_db.  Redis is not              *)
(* transactional: what a handler wrote to Redis before an exception stays. *)
(* SpecConcurrent and SpecListener take the push fan-out and connect at    *)
(* the grain of their awaits, where other coroutines of the event loop     *)
(* run in between.                                                         *)
(***************************************************************************)
EXTENDS Integers, Sequences, FiniteSets, TLC

(***************************************************************************)
(* Bounds of the model.                                                    *)
(***************************************************************************)
\* Registered users (rows of the users table); ids 1..NumUsers.
NumUsers == 3
\* Tweet ids the sequence of tweets.id hands out in one run of Spec.
MaxTweets == 3
\* Posts of the followee in one run of SpecPaging.
MaxPosts == 4
\* The largest limit a request of SpecPaging asks for.
MaxPageLimit == 2
\* Pages a client of SpecPaging asks for before it gives up.
MaxPages == 5
\* WebSockets that are opened in one run of SpecRealtime.
MaxWebSockets == 3
\* Messages Redis holds for the listener before the next publish waits.
MaxMessages == 1
\* Tweets posted in one run of SpecTrim on top of the ones it starts with.
MaxTrimPosts == 2
\* Tweet ids the sequence hands out in one run of SpecRealtime.
MaxEvents == 1

Users == 1..NumUsers

\* Python's None where a string may stand: a sequence that is no string
\* (its one element is not a character).
None == <<"None">>
\* NULL in tweets.reply_to_id, and the falsy value of "if data.reply_to_id:".
NoId == 0

(***************************************************************************)
(* Settings (app/config.py).  The process reads them once at start-up      *)
(* (pydantic BaseSettings: defaults, overridable from the environment), so *)
(* a configuration is a value fixed in the initial state.  page_limit_le is*)
(* the cap FastAPI puts on the limit query parameter (app/api/timeline.py).*)
(***************************************************************************)
DefaultSettings ==
    [ celebrity_threshold |-> 5000,
      timeline_cache_ttl  |-> 300,
      timeline_max_size   |-> 800,
      page_limit_le       |-> 100 ]

\* The same deployment scaled down: celebrity_threshold and timeline_max_size
\* small enough for the pull path and the eviction to happen with NumUsers
\* users and MaxTweets tweets, and 2 * page_limit_le <= timeline_max_size as
\* in the defaults (200 <= 800).
ScaledSettings ==
    [ celebrity_threshold |-> 2,
      timeline_cache_ttl  |-> 300,
      timeline_max_size   |-> 2,
      page_limit_le       |-> 1 ]

\* zrange(cache_key, 0, limit + 50): the over-fetch of the Publish Cache read.
OVERFETCH == 50
\* zremrangebyrank(cache_key, 0, -201): the Broadcast Cache keeps 200 ids.
CELEBRITY_WINDOW == 200

(***************************************************************************)
(* Strings.  A string is a sequence of one-character strings.  str(n) and  *)
(* int(s) are modelled as Python computes them, so that a cursor's round   *)
(* trip str -> int is checked, not assumed.                                *)
(***************************************************************************)
Digits == <<"0", "1", "2", "3", "4", "5", "6", "7", "8", "9">>
DigitSet == {Digits[i] : i \in 1..10}
DigitVal(c) == (CHOOSE i \in 1..10 : Digits[i] = c) - 1

\* str(n) for an int n.
RECURSIVE StrNat(_)
StrNat(n) == IF n < 10 THEN <<Digits[n + 1]>>
             ELSE StrNat(n \div 10) \o <<Digits[(n % 10) + 1]>>
Str(n) == IF n < 0 THEN <<"-">> \o StrNat(0 - n) ELSE StrNat(n)

\* str.strip() of the whitespace int() ignores.
RECURSIVE LStrip(_)
LStrip(s) == IF s # <<>> /\ Head(s) = " " THEN LStrip(Tail(s)) ELSE s
RECURSIVE RStrip(_)
RStrip(s) == IF s # <<>> /\ s[Len(s)] = " " THEN RStrip(SubSeq(s, 1, Len(s) - 1)) ELSE s
Strip(s) == RStrip(LStrip(s))

\* The digits part of an integer literal: digits, single underscores between.
ValidDigits(b) ==
    /\ b # <<>>
    /\ \A i \in 1..Len(b) : b[i] \in DigitSet \cup {"_"}
    /\ b[1] # "_" /\ b[Len(b)] # "_"
    /\ \A i \in 1..(Len(b) - 1) : ~(b[i] = "_" /\ b[i + 1] = "_")

RECURSIVE DigitsValue(_, _)
DigitsValue(b, acc) ==
    IF b = <<>> THEN acc
    ELSE IF Head(b) = "_" THEN DigitsValue(Tail(b), acc)
    ELSE DigitsValue(Tail(b), 10 * acc + DigitVal(Head(b)))

\* Mutation of ParseInt: the longest prefix of digits is the number, as C's
\* atoi reads it; only a string that does not start with a digit is rejected.
RECURSIVE DigitPrefix(_)
DigitPrefix(s) ==
    IF s # <<>> /\ Head(s) \in DigitSet THEN <<Head(s)>> \o DigitPrefix(Tail(s))
    ELSE <<>>
ParseIntPrefix(s) ==
    IF DigitPrefix(s) # <<>>
    THEN [ok |-> TRUE, val |-> DigitsValue(DigitPrefix(s), 0)]
    ELSE [ok |-> FALSE, val |-> 0]

\* int(s): [ok |-> TRUE, val |-> n], or [ok |-> FALSE] where Python raises
\* ValueError.
ParseInt(s) ==
    LET t    == Strip(s)
        sign == IF t # <<>> /\ Head(t) \in {"+", "-"} THEN Head(t) ELSE ""
        b    == IF sign = "" THEN t ELSE Tail(t)
    IN  IF ValidDigits(b)
        THEN [ok |-> TRUE,
              val |-> IF sign = "-" THEN 0 - DigitsValue(b, 0) ELSE DigitsValue(b, 0)]
        ELSE [ok |-> FALSE, val |-> 0]

\* int(tid) of a cache member or of a rebuilt id (always str(id) of a tweet).
IntOf(s) == ParseInt(s).val

Min(a, b) == IF a <= b THEN a ELSE b
Max(a, b) == IF a >= b THEN a ELSE b

Range(s) == {s[i] : i \in DOMAIN s}

(***************************************************************************)
(* State.                                                                  *)
(***************************************************************************)
VARIABLES
    cfg,               \* the Settings the process started with
    tweets,            \* committed rows of the tweets table: [id, author_id, reply_to_id]
    nextId,            \* next value of the tweets.id sequence
    follows,           \* rows of the follows table: <<follower_id, following_id>>
    followers_count,   \* users.followers_count, the denormalised count
    timeline,          \* Redis sorted set timeline:{user_id}   (Publish Cache)
    timeline_ttl,      \* its time-to-live as last set by EXPIRE; 0: none
    celebrity_tweets,  \* Redis sorted set celebrity_tweets:{user_id}   (Broadcast Cache)
    celebrity_ttl,     \* its time-to-live as last set by EXPIRE; 0: none
    deleted,           \* ids of the rows TweetService.delete removed (history)
    resp,              \* what the last request did and answered
    pager,             \* a client following next_cursor (SpecPaging)
    active_connections,\* ConnectionManager.active_connections: key -> set of WebSockets
    websockets,        \* per WebSocket: its state and the user who logged in
    pubsub,            \* the listener tasks and the messages Redis holds for them
    handled,           \* what the listener did with the last event it took
    fanouts            \* the _fanout_regular calls that are between two awaits

realtime == <<active_connections, websockets, pubsub, handled>>

vars == <<cfg, tweets, nextId, follows, followers_count, timeline, timeline_ttl,
          celebrity_tweets, celebrity_ttl, deleted, resp, pager,
          active_connections, websockets, pubsub, handled, fanouts>>

(***************************************************************************)
(* Redis sorted sets (app/core/redis.py).  Every member is str(tweet.id)   *)
(* and its score float(tweet.id), so a sorted set is the set of its        *)
(* members and a member's score is its int().  A sorted set that loses its *)
(* last member is deleted by Redis together with its time-to-live.         *)
(***************************************************************************)
RECURSIVE SortedDesc(_)
SortedDesc(S) ==
    IF S = {} THEN <<>>
    ELSE LET m == CHOOSE x \in S : \A y \in S : IntOf(y) <= IntOf(x)
         IN  <<m>> \o SortedDesc(S \ {m})

Reverse(s) == [i \in 1..Len(s) |-> s[Len(s) + 1 - i]]

\* The scores of the members of a sorted set: their ids.
IdsOf(S) == {IntOf(m) : m \in S}

\* The rank of the member of score id counted from the lowest score and from
\* the highest score (0 is the first); ids are the scores of the set.
RankAsc(ids, id) == Cardinality({y \in ids : y < id})
RankDesc(ids, id) == Cardinality({y \in ids : y > id})

\* ZADD key {member: score}
zadd(S, member) == S \cup {member}

\* ZREVRANGE key start stop   (RedisClient.zrange with desc=True), 0 <= start.
zrange(S, start, stop) ==
    LET n  == Cardinality(S)
        hi == IF stop < 0 THEN n + stop ELSE Min(stop, n - 1)
        Slice(ids) == SortedDesc({m \in S : RankDesc(ids, IntOf(m)) \in start..hi})
    IN  Slice(IdsOf(S))

\* ZREMRANGEBYRANK key start stop: ranks count from the lowest score, a
\* negative rank from the highest (-1 is the highest).
zremrangebyrank(S, start, stop) ==
    LET n  == Cardinality(S)
        lo == IF start < 0 THEN Max(n + start, 0) ELSE start
        hi == IF stop < 0 THEN n + stop ELSE Min(stop, n - 1)
        Remove(ids) == {m \in S : RankAsc(ids, IntOf(m)) \notin lo..hi}
    IN  IF lo > hi THEN S ELSE Remove(IdsOf(S))

\* ZREM key member
zrem(S, member) == S \ {member}

\* Mutation of delete: the call removes every key of the family.
delete_every_key(keys, user_id) == [u \in DOMAIN keys |-> {}]

\* RedisClient.delete on one key of a family of sorted sets: an empty sorted
\* set is a key that does not exist.
delete(keys, user_id) == [keys EXCEPT ![user_id] = {}]

\* The time-to-live a key keeps after a write that left it with members S.
KeepTtl(S, ttl) == IF S = {} THEN 0 ELSE ttl

(***************************************************************************)
(* Durable Store queries.                                                  *)
(***************************************************************************)
\* select(Follow.follower_id).where(Follow.following_id == author.id)
FollowerIds(author_id) == {f[1] : f \in {g \in follows : g[2] = author_id}}

\* select(Follow.following_id).where(Follow.follower_id == user_id)
FollowingIds(user_id) == {f[2] : f \in {g \in follows : g[1] = user_id}}

\* TweetService.get_by_id: whether a row has the id, and the row.
HasRow(tweet_id) == \E t \in tweets : t.id = tweet_id
get_by_id(tweet_id) == CHOOSE t \in tweets : t.id = tweet_id

TweetIds == {t.id : t \in tweets}

\* The n highest of a set of ints, highest first.
RECURSIVE TopDesc(_, _)
TopDesc(S, n) ==
    IF S = {} \/ n <= 0 THEN <<>>
    ELSE LET m == CHOOSE x \in S : \A y \in S : y <= x
         IN  <<m>> \o TopDesc(S \ {m}, n - 1)

(***************************************************************************)
(* Faults.  A request may meet an unreachable Durable Store ("db": its     *)
(* first query raises) or a Redis command that raises ("redis").  A Redis  *)
(* fault names the commands that completed before the failing one: the     *)
(* followers whose key was written completely (done), the follower whose   *)
(* key got the first of its two commands only (half, at most one), or the  *)
(* number of commands completed on the single key of the pull path (ops).  *)
(***************************************************************************)
NoFault == [kind |-> "none", done |-> {}, half |-> {}, ops |-> 0]
DbFault == [kind |-> "db", done |-> {}, half |-> {}, ops |-> 0]

\* Redis faults of a loop over the keys of the followers F (the Durable Store
\* returns the follower ids in no particular order).
LoopFaults(F, twoCommands) ==
    {x \in [kind : {"redis"}, done : SUBSET F, half : SUBSET F, ops : {0}] :
        /\ x.half \cap x.done = {}
        /\ Cardinality(x.half) <= (IF twoCommands THEN 1 ELSE 0)}

\* Redis faults of a sequence of n commands: 0..n-1 of them completed.
SeqFaults(n) == {[kind |-> "redis", done |-> {}, half |-> {}, ops |-> k] : k \in 0..(n - 1)}

(***************************************************************************)
(* FanoutService (app/services/fanout.py).                                 *)
(***************************************************************************)
\* The real-time event of _publish_realtime.
NewTweetEvent(tweet, follower_ids) ==
    [type |-> "new_tweet", tweet_id |-> tweet.id, author_id |-> tweet.author_id,
     follower_ids |-> follower_ids]

\* The real-time event of remove_from_timelines.
TweetDeletedEvent(tweet) == [type |-> "tweet_deleted", tweet_id |-> tweet.id]

\* Mutation of TrimTimeline: the trim removes the ranks from timeline_max_size
\* upwards, the newest ids, instead of the oldest.
TrimTimelineNewest(S) == zremrangebyrank(S, cfg.timeline_max_size, -1)

\* Mutation of TrimTimeline: the trim is off by one and keeps
\* timeline_max_size + 1 ids.
TrimTimelineLate(S) == zremrangebyrank(S, 0, 0 - cfg.timeline_max_size - 2)

\* zremrangebyrank(cache_key, 0, -settings.timeline_max_size - 1)
TrimTimeline(S) == zremrangebyrank(S, 0, 0 - cfg.timeline_max_size - 1)

\* Mutation of PushWrite: room is made before the ZADD, by trimming the key to
\* timeline_max_size - 1 ids whatever the member added.
PushWriteEvictFirst(S, tweet) ==
    zadd(zremrangebyrank(S, 0, 0 - cfg.timeline_max_size), Str(tweet.id))

\* One pass of the loop of _fanout_regular: ZADD, then the trim.
PushWrite(S, tweet) == TrimTimeline(zadd(S, Str(tweet.id)))

\* _fanout_regular.  tl, tl_ttl: the Publish Cache before.  The result holds
\* the Publish Cache after, what was published and what the call returned;
\* raised: a Redis command raised (fault) and the exception left the call.
_fanout_regular(tl, tl_ttl, tweet, author_id, fault) ==
    LET follower_ids == FollowerIds(author_id)
        failed == fault.kind = "redis" /\ follower_ids # {}
        written == IF failed THEN fault.done ELSE follower_ids
        half == IF failed THEN fault.half ELSE {}
        Result(tl2) ==
            [timeline |-> tl2,
             timeline_ttl |-> [u \in Users |-> KeepTtl(tl2[u], tl_ttl[u])],
             events |-> IF failed \/ follower_ids = {} THEN <<>>
                        ELSE <<NewTweetEvent(tweet, follower_ids)>>,
             count |-> IF failed THEN 0 ELSE Cardinality(follower_ids),
             raised |-> failed]
    IN  Result([u \in Users |->
                  IF u \in written THEN PushWrite(tl[u], tweet)
                  ELSE IF u \in half THEN zadd(tl[u], Str(tweet.id))
                  ELSE tl[u]])

\* Mutation of TrimCelebrity: the trim is off by one and keeps 201 ids.
TrimCelebrityLate(S) == zremrangebyrank(S, 0, 0 - CELEBRITY_WINDOW - 2)

\* zremrangebyrank(cache_key, 0, -201)
TrimCelebrity(S) == zremrangebyrank(S, 0, 0 - CELEBRITY_WINDOW - 1)

\* Mutation of _fanout_celebrity: the call returns the number of followers.
_fanout_celebrity_counting(cel, cel_ttl, tweet, author_id, fault) ==
    LET s == TrimCelebrity(zadd(cel[author_id], Str(tweet.id)))
    IN  [celebrity_tweets |-> [cel EXCEPT ![author_id] = s],
         celebrity_ttl |-> [cel_ttl EXCEPT ![author_id] = cfg.timeline_cache_ttl * 2],
         events |-> <<NewTweetEvent(tweet, FollowerIds(author_id))>>,
         count |-> Cardinality(FollowerIds(author_id)),
         raised |-> FALSE]

\* _fanout_celebrity: ZADD, the trim, EXPIRE, then the publish.
_fanout_celebrity(cel, cel_ttl, tweet, author_id, fault) ==
    LET failed == fault.kind = "redis"
        ops == IF failed THEN fault.ops ELSE 4
        s1 == IF ops >= 1 THEN zadd(cel[author_id], Str(tweet.id)) ELSE cel[author_id]
        s2 == IF ops >= 2 THEN TrimCelebrity(s1) ELSE s1
        t2 == IF ops >= 3 /\ s2 # {} THEN cfg.timeline_cache_ttl * 2
              ELSE KeepTtl(s2, cel_ttl[author_id])
    IN  [celebrity_tweets |-> [cel EXCEPT ![author_id] = s2],
         celebrity_ttl |-> [cel_ttl EXCEPT ![author_id] = t2],
         events |-> IF failed THEN <<>>
                    ELSE <<NewTweetEvent(tweet, FollowerIds(author_id))>>,
         count |-> IF failed THEN 0 ELSE 1,
         raised |-> failed]

\* Mutation of IsCelebrity: the pull path only above the threshold.
IsCelebrityAbove(author_count) == author_count > cfg.celebrity_threshold

\* The strategy of fanout_tweet and of remove_from_timelines.
IsCelebrity(author_count) == author_count >= cfg.celebrity_threshold

\* fanout_tweet(tweet, author): the caches after, the events, the count.
fanout_tweet(tl, tl_ttl, cel, cel_ttl, tweet, author_id, author_count, fault) ==
    LET Celebrity(r) ==
            [path |-> "celebrity",
             timeline |-> tl, timeline_ttl |-> tl_ttl,
             celebrity_tweets |-> r.celebrity_tweets, celebrity_ttl |-> r.celebrity_ttl,
             events |-> r.events, count |-> r.count, raised |-> r.raised]
        Regular(r) ==
            [path |-> "regular",
             timeline |-> r.timeline, timeline_ttl |-> r.timeline_ttl,
             celebrity_tweets |-> cel, celebrity_ttl |-> cel_ttl,
             events |-> r.events, count |-> r.count, raised |-> r.raised]
    IN  IF IsCelebrity(author_count)
        THEN Celebrity(_fanout_celebrity(cel, cel_ttl, tweet, author_id, fault))
        ELSE Regular(_fanout_regular(tl, tl_ttl, tweet, author_id, fault))

\* remove_from_timelines(tweet, author): ZREM on the author's Broadcast Cache
\* key or on every follower's Publish Cache key, then the publish.
remove_from_timelines(tl, tl_ttl, cel, cel_ttl, tweet, author_id, author_count, fault) ==
    LET failed == fault.kind = "redis"
        member == Str(tweet.id)
    IN  IF IsCelebrity(author_count)
        THEN LET s == IF failed /\ fault.ops = 0 THEN cel[author_id]
                      ELSE zrem(cel[author_id], member)
             IN  [timeline |-> tl, timeline_ttl |-> tl_ttl,
                  celebrity_tweets |-> [cel EXCEPT ![author_id] = s],
                  celebrity_ttl |-> [cel_ttl EXCEPT ![author_id] = KeepTtl(s, @)],
                  events |-> IF failed THEN <<>> ELSE <<TweetDeletedEvent(tweet)>>,
                  raised |-> failed]
        ELSE LET follower_ids == FollowerIds(author_id)
                 written == IF failed THEN fault.done ELSE follower_ids
                 Result(tl2) ==
                     [timeline |-> tl2,
                      timeline_ttl |-> [u \in Users |-> KeepTtl(tl2[u], tl_ttl[u])],
                      celebrity_tweets |-> cel, celebrity_ttl |-> cel_ttl,
                      events |-> IF failed THEN <<>> ELSE <<TweetDeletedEvent(tweet)>>,
                      raised |-> failed]
             IN  Result([u \in Users |->
                           IF u \in written THEN zrem(tl[u], member) ELSE tl[u]])

(***************************************************************************)
(* TimelineService (app/services/timeline.py).                             *)
(***************************************************************************)
\* max_id of get_home_timeline and get_user_timeline: int(cursor) when the
\* cursor is a non-empty string that int() accepts, else None.
\* ok is FALSE for max_id = None.
ParseCursor(cursor) ==
    IF cursor # None /\ cursor # <<>>
    THEN ParseInt(cursor)
    ELSE [ok |-> FALSE, val |-> 0]

\* Mutation of CursorKeeps: the id of the cursor itself passes the filter.
CursorKeepsInclusive(max_id, id) ==
    (~max_id.ok) \/ (max_id.val = 0) \/ (id <= max_id.val)

\* "if max_id:" then "int(tid) < max_id"; None and 0 are falsy.
CursorKeeps(max_id, id) == (~max_id.ok) \/ (max_id.val = 0) \/ (id < max_id.val)

\* Mutation of CelebrityIds: the read path takes an account for a celebrity
\* only above the threshold, the write path at the threshold.
CelebrityIdsAbove(user_id) ==
    {c \in FollowingIds(user_id) : followers_count[c] > cfg.celebrity_threshold}

\* The celebrities user_id follows: the join of _get_celebrity_tweets.
CelebrityIds(user_id) ==
    {c \in FollowingIds(user_id) : followers_count[c] >= cfg.celebrity_threshold}

\* _get_celebrity_tweets: zrange(key, 0, limit) of every followed celebrity.
_get_celebrity_tweets(cel, user_id, limit) ==
    UNION {Range(zrange(cel[c], 0, limit)) : c \in CelebrityIds(user_id)}

\* The query of _rebuild_timeline: the ids of the limit newest top-level tweets
\* of the users user_id follows, newest first, as strings.
RebuildIds(user_id, limit) ==
    LET following_ids == FollowingIds(user_id)
        ids == {t.id : t \in {x \in tweets : /\ x.author_id \in following_ids
                                             /\ x.reply_to_id = NoId}}
        top == TopDesc(ids, limit)
    IN  [i \in 1..Len(top) |-> Str(top[i])]

\* _rebuild_timeline(user_id, limit): the ids, and the caller's Publish Cache
\* key after the ZADDs and the EXPIRE.  A Redis fault lets fault.ops ZADDs
\* complete.
_rebuild_timeline(tl_u, ttl_u, user_id, limit, fault) ==
    LET tweet_ids == RebuildIds(user_id, limit)
        failed == fault.kind = "redis"
        n == IF failed THEN Min(fault.ops, Len(tweet_ids)) ELSE Len(tweet_ids)
        s == tl_u \cup {tweet_ids[i] : i \in 1..n}
    IN  [ids |-> tweet_ids,
         timeline |-> s,
         ttl |-> IF ~failed /\ tweet_ids # <<>> THEN cfg.timeline_cache_ttl
                 ELSE KeepTtl(s, ttl_u)]

\* Mutation of _fetch_tweets: every id is answered, with or without a row.
_fetch_tweets_unchecked(tweet_ids) ==
    [i \in 1..Len(tweet_ids) |-> IntOf(tweet_ids[i])]

\* _fetch_tweets: the rows of the ids, in the order of the ids; an id without
\* a row is skipped.  The result lists the ids of the rows.
_fetch_tweets(tweet_ids) ==
    LET int_ids == [i \in 1..Len(tweet_ids) |-> IntOf(tweet_ids[i])]
        Found(id) == id \in TweetIds
    IN  SelectSeq(int_ids, Found)

\* cached_tweet_ids + celebrity_tweet_ids without the set(): an id held by
\* both caches is listed twice.
MergeKeepBoth(cached_tweet_ids, celebrity_tweet_ids) ==
    Reverse(SortedDesc(cached_tweet_ids)) \o Reverse(SortedDesc(celebrity_tweet_ids))

\* list(set(cached_tweet_ids + celebrity_tweet_ids)): every member once.  The
\* order of a Python set is arbitrary and is replaced by the sort that
\* follows; the list is taken here in ascending order, the opposite of the
\* order the sort must produce.
MergeDedupe(cached_tweet_ids, celebrity_tweet_ids) ==
    Reverse(SortedDesc(cached_tweet_ids \cup celebrity_tweet_ids))

\* sorted(all_tweet_ids, key=lambda x: int(x), reverse=True): a stable sort of
\* a list, which keeps a member as many times as the list holds it.
RECURSIVE InsertDesc(_, _)
InsertDesc(s, m) ==
    IF s = <<>> THEN <<m>>
    ELSE IF IntOf(m) > IntOf(Head(s)) THEN <<m>> \o s
    ELSE <<Head(s)>> \o InsertDesc(Tail(s), m)

RECURSIVE sorted(_)
sorted(s) ==
    IF s = <<>> THEN <<>> ELSE InsertDesc(sorted(Tail(s)), Head(s))

\* Mutation of RebuildCalls: a rebuild that yields no id is tried once more.
RebuildCallsRetrying(miss, tweet_ids) ==
    IF ~miss THEN 0 ELSE IF tweet_ids = <<>> THEN 2 ELSE 1

\* "if not all_tweet_ids: all_tweet_ids = await self._rebuild_timeline(...)":
\* the calls of _rebuild_timeline one get_home_timeline makes; tweet_ids is
\* what the rebuild returned.
RebuildCalls(miss, tweet_ids) == IF miss THEN 1 ELSE 0

\* get_home_timeline(user_id, limit, cursor) on the Publish Cache key tl_u of
\* the caller and the Broadcast Cache cel.
get_home_timeline(tl_u, ttl_u, cel, user_id, limit, cursor, fault) ==
    LET ok == fault.kind = "none"
        \* tweets = await self._fetch_tweets(...) and the TimelineResponse
        Response(cached_tweet_ids, celebrity_tweet_ids, miss, rb, has_more, found) ==
            [status |-> IF ok THEN 200 ELSE 500,
             tweets |-> IF ok THEN found ELSE <<>>,
             next_cursor |-> IF ok /\ has_more /\ found # <<>>
                             THEN Str(found[Len(found)]) ELSE None,
             has_more |-> ok /\ has_more,
             rebuilt |-> miss /\ fault.kind # "db",
             rebuilds |-> IF fault.kind # "db" THEN RebuildCalls(miss, rb.ids)
                          ELSE 0,
             cached |-> cached_tweet_ids,
             celebrity |-> celebrity_tweet_ids,
             timeline |-> IF miss /\ fault.kind # "db" THEN rb.timeline ELSE tl_u,
             ttl |-> IF miss /\ fault.kind # "db" THEN rb.ttl ELSE ttl_u]
        \* sorted(...)[:limit + 1], has_more and the cut to limit
        Page(cached_tweet_ids, celebrity_tweet_ids, miss, rb, all_tweet_ids) ==
            Response(cached_tweet_ids, celebrity_tweet_ids, miss, rb,
                     Len(all_tweet_ids) > limit,
                     _fetch_tweets(SubSeq(all_tweet_ids, 1,
                                          Min(limit, Len(all_tweet_ids)))))
        \* the merge, the rebuild on a miss and the cursor filter
        Merge(cached_tweet_ids, celebrity_tweet_ids, miss, rb, max_id) ==
            LET Keeps(m) == CursorKeeps(max_id, IntOf(m))
            IN  Page(cached_tweet_ids, celebrity_tweet_ids, miss, rb,
                     sorted(SelectSeq(IF miss THEN rb.ids
                                      ELSE MergeDedupe(cached_tweet_ids,
                                                       celebrity_tweet_ids),
                                      Keeps)))
        Read(cached_tweet_ids, celebrity_tweet_ids) ==
            Merge(cached_tweet_ids, celebrity_tweet_ids,
                  cached_tweet_ids \cup celebrity_tweet_ids = {},
                  _rebuild_timeline(tl_u, ttl_u, user_id, limit * 2, fault),
                  ParseCursor(cursor))
    IN  Read(Range(zrange(tl_u, 0, limit + OVERFETCH)),
             _get_celebrity_tweets(cel, user_id, limit))

\* Mutation of get_user_timeline: the query without
\* .where(Tweet.reply_to_id.is_(None)).
get_user_timeline_with_replies(target_user_id, limit, cursor, fault) ==
    LET max_id == ParseCursor(cursor)
        ids == {t.id : t \in {x \in tweets : /\ x.author_id = target_user_id
                                             /\ CursorKeeps(max_id, x.id)}}
        first == TopDesc(ids, limit + 1)
        has_more == Len(first) > limit
        page == IF has_more THEN SubSeq(first, 1, limit) ELSE first
    IN  [status |-> 200, tweets |-> page,
         next_cursor |-> IF has_more /\ page # <<>>
                         THEN Str(page[Len(page)]) ELSE None,
         has_more |-> has_more]

\* get_user_timeline(target_user_id, limit, cursor).
get_user_timeline(target_user_id, limit, cursor, fault) ==
    LET max_id == ParseCursor(cursor)
        ids == {t.id : t \in {x \in tweets : /\ x.author_id = target_user_id
                                             /\ x.reply_to_id = NoId
                                             /\ CursorKeeps(max_id, x.id)}}
        first == TopDesc(ids, limit + 1)
        has_more == Len(first) > limit
        page == IF has_more THEN SubSeq(first, 1, limit) ELSE first
        ok == fault.kind = "none"
    IN  [status |-> IF ok THEN 200 ELSE 500,
         tweets |-> IF ok THEN page ELSE <<>>,
         next_cursor |-> IF ok /\ has_more /\ page # <<>>
                         THEN Str(page[Len(page)]) ELSE None,
         has_more |-> ok /\ has_more]

(***************************************************************************)
(* Request inputs.                                                         *)
(***************************************************************************)
\* limit: Query(20, le=100, ge=1) of app/api/timeline.py.
Limits == 1..cfg.page_limit_le

\* Who follows whom in a run of Spec: users 2 and 3 may follow user 1 (who
\* reaches the scaled celebrity threshold with both), user 3 may follow user 2.
FollowInputs == {<<2, 1>>, <<3, 1>>, <<3, 2>>}
\* Follow requests UserService rejects: a self-follow.  (A second follow and an
\* unfollow without a follow are rejected from FollowInputs.)
SelfFollowInputs == {<<1, 1>>}
\* Who posts in a run of Spec.
Authors == {1, 2}
\* SpecPaging: user 3 reads, user 2 is the followee and posts.
PagingReader == NumUsers
PagingAuthor == NumUsers - 1
PagingLimits == 1..MaxPageLimit
\* Cursor strings int() rejects, and the empty string "if cursor:" skips.
MalformedCursors ==
    {<<"a", "b", "c">>, <<"1", "a">>, <<"2", ".", "5">>, <<"-">>, <<" ">>, <<>>}
\* Cursor strings a client of SpecPaging sends: none, the malformed ones, the
\* decimal strings of 0 and of the ids handed out, and two spellings int()
\* accepts beside str(id).
CursorInputs ==
    {None} \cup MalformedCursors \cup {Str(k) : k \in 0..(nextId - 1)}
           \cup {<<" ", "2">>, <<"+", "1">>}
\* Who follows whom and who posts in a run of SpecFaults.
FaultFollowInputs == {<<2, 1>>, <<3, 1>>}
FaultAuthors == {1}

IdleResp == [op |-> "none", status |-> 0]
IdlePager == [active |-> FALSE]

(***************************************************************************)
(* Event Broadcaster: the Redis channel "tweets:realtime", the listener    *)
(* task and ConnectionManager (app/websocket/manager.py).                  *)
(*                                                                         *)
(* Python compares the keys of active_connections by type and value: the   *)
(* int 3 and the str "3" are two keys.  A key of the model is a type tag   *)
(* followed by the decimal digits.                                         *)
(***************************************************************************)
PyInt(n) == <<"int">> \o Str(n)
PyStr(s) == <<"str">> \o s

WebSockets == 1..MaxWebSockets
NewWebSocket == [state |-> "new", user |-> NoId]
IdleHandled == [type |-> "none"]

\* create_access_token(data) and decode_token(token) of app/core/security.py:
\* a token carries the claims it was created with, and a valid token decodes
\* to them.
create_access_token(data) == data
decode_token(token) == token

\* AuthService.login: the token of a user who gave the right password.
login(user_id) == create_access_token([sub |-> Str(user_id)])

\* ConnectionManager() before the first connect: _pubsub_task is None (task
\* 0), no _listen_to_redis task exists, nothing is subscribed to the channel.
\* task is the number of the task _pubsub_task refers to, tasks are the
\* _listen_to_redis tasks that have not finished.
NewPubsub == [listening |-> FALSE, messages |-> <<>>, task |-> 0, tasks |-> {}]

\* Mutation of IsNotRunning: connect takes the listener for stopped whatever
\* _pubsub_task says.
IsNotRunningAlways(ps) == TRUE

\* self._pubsub_task is None or self._pubsub_task.done()
IsNotRunning(ps) == ps.task = 0 \/ ps.task \notin ps.tasks

\* self._pubsub_task = asyncio.create_task(self._listen_to_redis()); the new
\* task subscribes to the channel.
create_task(ps) ==
    [ps EXCEPT !.task = @ + 1, !.tasks = @ \cup {ps.task + 1}, !.listening = TRUE]

\* The end of connect: the listener is started unless one is running.
start_listener(ps) == IF IsNotRunning(ps) THEN create_task(ps) ELSE ps

\* RedisClient.publish on "tweets:realtime": Redis hands a message to the
\* subscribers of that moment and keeps none; the listener subscribes when
\* the first WebSocket connects.
publish(ps, events) ==
    IF ps.listening THEN [ps EXCEPT !.messages = @ \o events] ELSE ps

\* The WebSockets of the registry.
Registered(conns) == UNION {conns[user_id] : user_id \in DOMAIN conns}

\* Mutation of send_personal_message: no try around send_json and no
\* clean-up; the sockets are taken in ascending order and the ones after the
\* first failing one are not reached.
send_personal_message_unguarded(conns, failing, user_id) ==
    IF user_id \in DOMAIN conns
    THEN [active_connections |-> conns,
          attempted |-> {ws \in conns[user_id] :
                            \A f \in conns[user_id] \cap failing : ws <= f},
          failed |-> {ws \in conns[user_id] \cap failing :
                         \A f \in conns[user_id] \cap failing : ws <= f}]
    ELSE [active_connections |-> conns, attempted |-> {}, failed |-> {}]

\* send_personal_message(message, user_id): send_json on every WebSocket of
\* the key; the ones whose send_json raised are discarded after the loop.
\* failing: the WebSockets whose send_json raises.
send_personal_message(conns, failing, user_id) ==
    IF user_id \in DOMAIN conns
    THEN [active_connections |->
              [conns EXCEPT ![user_id] = @ \ (conns[user_id] \cap failing)],
          attempted |-> conns[user_id],
          failed |-> conns[user_id] \cap failing]
    ELSE [active_connections |-> conns, attempted |-> {}, failed |-> {}]

\* broadcast(message, user_ids): send_personal_message for one user after the
\* other.  A call changes the set of its own key only.
broadcast(conns, failing, user_ids) ==
    [active_connections |->
         [user_id \in DOMAIN conns |->
              IF user_id \in user_ids
              THEN send_personal_message(conns, failing, user_id)
                       .active_connections[user_id]
              ELSE conns[user_id]],
     attempted |-> UNION {send_personal_message(conns, failing, user_id).attempted :
                             user_id \in user_ids},
     failed |-> UNION {send_personal_message(conns, failing, user_id).failed :
                          user_id \in user_ids}]

\* Mutation of _handle_realtime_event: a tweet_deleted event goes to the
\* WebSockets of one key only.
_handle_realtime_event_one_key(conns, failing, event) ==
    IF event.type = "new_tweet"
    THEN broadcast(conns, failing, {PyInt(f) : f \in event.follower_ids})
    ELSE broadcast(conns, failing,
                   {k \in DOMAIN conns : \A o \in DOMAIN conns : IntOf(Tail(k)) <= IntOf(Tail(o))})

\* _handle_realtime_event(event).  json.loads gives the follower ids back as
\* the ints json.dumps was given.
_handle_realtime_event(conns, failing, event) ==
    IF event.type = "new_tweet"
    THEN broadcast(conns, failing, {PyInt(f) : f \in event.follower_ids})
    ELSE IF event.type = "tweet_deleted"
    THEN broadcast(conns, failing, DOMAIN conns)
    ELSE [active_connections |-> conns, attempted |-> {}, failed |-> {}]

(***************************************************************************)
(* The initial state: NumUsers registered users, nothing else.             *)
(***************************************************************************)
InitStore ==
    /\ tweets = {}
    /\ nextId = 1
    /\ follows = {}
    /\ followers_count = [u \in Users |-> 0]
    /\ timeline = [u \in Users |-> {}]
    /\ timeline_ttl = [u \in Users |-> 0]
    /\ celebrity_tweets = [u \in Users |-> {}]
    /\ celebrity_ttl = [u \in Users |-> 0]
    /\ deleted = {}
    /\ resp = IdleResp
    /\ pager = IdlePager
    /\ active_connections = [user_id \in {} |-> {}]
    /\ websockets = [ws \in WebSockets |-> NewWebSocket]
    /\ pubsub = NewPubsub
    /\ handled = IdleHandled
    /\ fanouts = {}

Init ==
    /\ cfg = ScaledSettings
    /\ InitStore

\* Mutation of FollowRejected: only the self-follow is rejected.
FollowRejectedSelfOnly(follower_id, following_id) == follower_id = following_id

\* UserService.follow: "Cannot follow yourself" and "Already following this
\* user", both 400 (every user of the model exists).
FollowRejected(follower_id, following_id) ==
    \/ follower_id = following_id
    \/ <<follower_id, following_id>> \in follows

(***************************************************************************)
(* POST /users/{user_id}/follow: UserService.follow, then get_db's commit. *)
(***************************************************************************)
Follow(follower_id, following_id, fault) ==
    LET rejected == FollowRejected(follower_id, following_id)
        status == IF fault.kind = "db" THEN 500
                  ELSE IF rejected THEN 400
                  ELSE IF fault.kind = "redis" THEN 500
                  ELSE 200
    IN  /\ IF status = 200
           THEN /\ follows' = follows \cup {<<follower_id, following_id>>}
                /\ followers_count' =
                       [followers_count EXCEPT ![following_id] = @ + 1]
                /\ timeline' = delete(timeline, follower_id)
                /\ timeline_ttl' = [timeline_ttl EXCEPT ![follower_id] = 0]
           ELSE UNCHANGED <<follows, followers_count, timeline, timeline_ttl>>
        /\ resp' = [op |-> "follow", status |-> status, user |-> follower_id,
                    target |-> following_id, fault |-> fault.kind]
        /\ UNCHANGED <<cfg, tweets, nextId, celebrity_tweets, celebrity_ttl,
                       deleted, pager>>
        /\ UNCHANGED <<realtime, fanouts>>

(***************************************************************************)
(* DELETE /users/{user_id}/follow: UserService.unfollow, then the commit.  *)
(***************************************************************************)
Unfollow(follower_id, following_id, fault) ==
    LET rejected == <<follower_id, following_id>> \notin follows
        status == IF fault.kind = "db" THEN 500
                  ELSE IF rejected THEN 400
                  ELSE IF fault.kind = "redis" THEN 500
                  ELSE 200
    IN  /\ IF status = 200
           THEN /\ follows' = follows \ {<<follower_id, following_id>>}
                /\ followers_count' =
                       [followers_count EXCEPT ![following_id] = @ - 1]
                /\ timeline' = delete(timeline, follower_id)
                /\ timeline_ttl' = [timeline_ttl EXCEPT ![follower_id] = 0]
           ELSE UNCHANGED <<follows, followers_count, timeline, timeline_ttl>>
        /\ resp' = [op |-> "unfollow", status |-> status, user |-> follower_id,
                    target |-> following_id, fault |-> fault.kind]
        /\ UNCHANGED <<cfg, tweets, nextId, celebrity_tweets, celebrity_ttl,
                       deleted, pager>>
        /\ UNCHANGED <<realtime, fanouts>>

(***************************************************************************)
(* POST /tweets: create_tweet = TweetService.create, then                  *)
(* FanoutService.fanout_tweet(tweet, current_user), then get_db: commit    *)
(* when the handler returned, rollback when it raised.  The id the flush   *)
(* drew from the sequence is not given back by a rollback.                 *)
(***************************************************************************)
\* The Redis faults fanout_tweet can meet for this author.
FanoutFaults(author_id) ==
    IF IsCelebrity(followers_count[author_id]) THEN SeqFaults(4)
    ELSE IF FollowerIds(author_id) = {} THEN {}
    ELSE LoopFaults(FollowerIds(author_id), TRUE)

CreateTweet(user_id, reply_to_id, fault) ==
    LET parent_missing == reply_to_id # NoId /\ ~HasRow(reply_to_id)
        tweet == [id |-> nextId, author_id |-> user_id, reply_to_id |-> reply_to_id]
        Answer(f) ==
            LET status == IF fault.kind = "db" THEN 500
                          ELSE IF parent_missing THEN 404
                          ELSE IF f.raised THEN 500
                          ELSE 201
            IN  IF status \in {201, 500} /\ fault.kind # "db"
                THEN /\ nextId' = nextId + 1
                     /\ tweets' = IF status = 201 THEN tweets \cup {tweet} ELSE tweets
                     /\ timeline' = f.timeline
                     /\ timeline_ttl' = f.timeline_ttl
                     /\ celebrity_tweets' = f.celebrity_tweets
                     /\ celebrity_ttl' = f.celebrity_ttl
                     /\ resp' = [op |-> "create", status |-> status, user |-> user_id,
                                 tweet_id |-> tweet.id, path |-> f.path,
                                 fault |-> fault.kind, events |-> f.events,
                                 count |-> f.count]
                     /\ pubsub' = publish(pubsub, f.events)
                ELSE /\ UNCHANGED <<nextId, tweets, timeline, timeline_ttl,
                                    celebrity_tweets, celebrity_ttl, pubsub>>
                     /\ resp' = [op |-> "create", status |-> status, user |-> user_id,
                                 tweet_id |-> NoId, path |-> "none",
                                 fault |-> fault.kind, events |-> <<>>, count |-> 0]
    IN  /\ Answer(fanout_tweet(timeline, timeline_ttl, celebrity_tweets, celebrity_ttl,
                               tweet, user_id, followers_count[user_id], fault))
        /\ UNCHANGED <<cfg, follows, followers_count, deleted, pager>>
        /\ UNCHANGED <<active_connections, websockets, handled, fanouts>>

(***************************************************************************)
(* DELETE /tweets/{tweet_id}: delete_tweet = get_by_id, then               *)
(* remove_from_timelines(tweet, current_user) when the row exists, then    *)
(* TweetService.delete (404 without a row, 403 for another user's tweet),  *)
(* then get_db.  What remove_from_timelines did to Redis stays when        *)
(* TweetService.delete raises.                                             *)
(*                                                                         *)
(* Tweet.reply_to_id is a foreign key without ON DELETE: for a tweet with  *)
(* replies the flush either sets the replies' reply_to_id to NULL (the     *)
(* ORM's handling of the one-to-many side of Tweet.replies) or raises an   *)
(* IntegrityError; orm picks the outcome.                                  *)
(***************************************************************************)
RetractFaults(user_id) ==
    IF IsCelebrity(followers_count[user_id]) THEN SeqFaults(2)
    ELSE LoopFaults(FollowerIds(user_id), FALSE)

HasReplies(tweet_id) == \E t \in tweets : t.reply_to_id = tweet_id

DeleteTweet(user_id, tweet_id, fault, orm) ==
    LET found == HasRow(tweet_id)
        tweet == IF found THEN get_by_id(tweet_id)
                 ELSE [id |-> tweet_id, author_id |-> NoId, reply_to_id |-> NoId]
        Answer(r) ==
            LET status == IF fault.kind = "db" THEN 500
                          ELSE IF ~found THEN 404
                          ELSE IF r.raised THEN 500
                          ELSE IF tweet.author_id # user_id THEN 403
                          ELSE IF HasReplies(tweet_id) /\ orm = "restrict" THEN 500
                          ELSE 204
            IN  /\ IF found /\ fault.kind # "db"
                   THEN /\ timeline' = r.timeline
                        /\ timeline_ttl' = r.timeline_ttl
                        /\ celebrity_tweets' = r.celebrity_tweets
                        /\ celebrity_ttl' = r.celebrity_ttl
                        /\ resp' = [op |-> "delete", status |-> status,
                                    user |-> user_id, tweet_id |-> tweet_id,
                                    fault |-> fault.kind, events |-> r.events]
                        /\ pubsub' = publish(pubsub, r.events)
                   ELSE /\ UNCHANGED <<timeline, timeline_ttl, celebrity_tweets,
                                       celebrity_ttl, pubsub>>
                        /\ resp' = [op |-> "delete", status |-> status,
                                    user |-> user_id, tweet_id |-> tweet_id,
                                    fault |-> fault.kind, events |-> <<>>]
                /\ IF status = 204
                   THEN /\ tweets' = {IF t.reply_to_id = tweet_id
                                      THEN [t EXCEPT !.reply_to_id = NoId] ELSE t :
                                          t \in tweets \ {tweet}}
                        /\ deleted' = deleted \cup {tweet_id}
                   ELSE UNCHANGED <<tweets, deleted>>
    IN  /\ Answer(remove_from_timelines(timeline, timeline_ttl, celebrity_tweets,
                                        celebrity_ttl, tweet, user_id,
                                        followers_count[user_id], fault))
        /\ UNCHANGED <<cfg, nextId, follows, followers_count, pager>>
        /\ UNCHANGED <<active_connections, websockets, handled, fanouts>>

(***************************************************************************)
(* GET /timeline/home: TimelineService.get_home_timeline.                  *)
(***************************************************************************)
HomeFaults(limit) == {NoFault, DbFault} \cup SeqFaults(2 * limit + 1)

HomeRequest(user_id, limit, cursor, fault) ==
    LET Answer(r) ==
            /\ timeline' = [timeline EXCEPT ![user_id] = r.timeline]
            /\ timeline_ttl' = [timeline_ttl EXCEPT ![user_id] = r.ttl]
            /\ resp' = [op |-> "home", status |-> r.status, user |-> user_id,
                        limit |-> limit, cursor |-> cursor, fault |-> fault.kind,
                        tweets |-> r.tweets, next_cursor |-> r.next_cursor,
                        has_more |-> r.has_more, rebuilt |-> r.rebuilt,
                        rebuilds |-> r.rebuilds,
                        cached |-> r.cached, celebrity |-> r.celebrity]
            /\ UNCHANGED <<cfg, tweets, nextId, follows, followers_count,
                           celebrity_tweets, celebrity_ttl, deleted>>
            /\ UNCHANGED <<realtime, fanouts>>
    IN  Answer(get_home_timeline(timeline[user_id], timeline_ttl[user_id],
                                 celebrity_tweets, user_id, limit, cursor, fault))

HomeTimeline(user_id, limit, cursor, fault) ==
    /\ HomeRequest(user_id, limit, cursor, fault)
    /\ UNCHANGED pager

(***************************************************************************)
(* GET /timeline/user/{user_id}: TimelineService.get_user_timeline.        *)
(***************************************************************************)
UserRequest(target_user_id, limit, cursor, fault) ==
    LET r == get_user_timeline(target_user_id, limit, cursor, fault)
    IN  /\ resp' = [op |-> "user", status |-> r.status, user |-> target_user_id,
                    limit |-> limit, cursor |-> cursor, fault |-> fault.kind,
                    tweets |-> r.tweets, next_cursor |-> r.next_cursor,
                    has_more |-> r.has_more]
        /\ UNCHANGED <<cfg, tweets, nextId, follows, followers_count, timeline,
                       timeline_ttl, celebrity_tweets, celebrity_ttl, deleted>>
        /\ UNCHANGED <<realtime, fanouts>>

UserTimeline(target_user_id, limit, cursor, fault) ==
    /\ UserRequest(target_user_id, limit, cursor, fault)
    /\ UNCHANGED pager

(***************************************************************************)
(* Redis expires a key whose time-to-live ran out.                         *)
(***************************************************************************)
ExpireTimeline(user_id) ==
    /\ timeline_ttl[user_id] > 0
    /\ timeline' = [timeline EXCEPT ![user_id] = {}]
    /\ timeline_ttl' = [timeline_ttl EXCEPT ![user_id] = 0]
    /\ resp' = [op |-> "expire", status |-> 0]
    /\ UNCHANGED <<cfg, tweets, nextId, follows, followers_count,
                   celebrity_tweets, celebrity_ttl, deleted, pager>>
    /\ UNCHANGED <<realtime, fanouts>>

ExpireCelebrity(user_id) ==
    /\ celebrity_ttl[user_id] > 0
    /\ celebrity_tweets' = [celebrity_tweets EXCEPT ![user_id] = {}]
    /\ celebrity_ttl' = [celebrity_ttl EXCEPT ![user_id] = 0]
    /\ resp' = [op |-> "expire", status |-> 0]
    /\ UNCHANGED <<cfg, tweets, nextId, follows, followers_count,
                   timeline, timeline_ttl, deleted, pager>>
    /\ UNCHANGED <<realtime, fanouts>>

(***************************************************************************)
(* The system without faults: requests arrive one after the other and      *)
(* every Durable Store query and Redis command succeeds.                   *)
(***************************************************************************)
NextFollow ==
    \E p \in FollowInputs \cup SelfFollowInputs : Follow(p[1], p[2], NoFault)

NextUnfollow ==
    \E p \in FollowInputs : Unfollow(p[1], p[2], NoFault)

NextCreate ==
    /\ nextId <= MaxTweets
    /\ \E u \in Authors : CreateTweet(u, NoId, NoFault)

NextDelete ==
    \E u \in Authors, tweet_id \in 1..(nextId - 1) :
        DeleteTweet(u, tweet_id, NoFault, "nullify")

NextHome ==
    \E u \in Users, limit \in Limits : HomeTimeline(u, limit, None, NoFault)

NextUser ==
    \E u \in Authors, limit \in Limits : UserTimeline(u, limit, None, NoFault)

NextExpire ==
    \E u \in Users : ExpireTimeline(u) \/ ExpireCelebrity(u)

Next ==
    \/ NextFollow
    \/ NextUnfollow
    \/ NextCreate
    \/ NextDelete
    \/ NextHome
    \/ NextUser
    \/ NextExpire

Spec == Init /\ [][Next]_vars

(***************************************************************************)
(* The system with faults: user 1 posts, users 2 and 3 follow and read,    *)
(* and any request may meet an unreachable Durable Store or a Redis        *)
(* command that raises.                                                    *)
(***************************************************************************)
FaultFollow ==
    \E p \in FaultFollowInputs, fault \in {NoFault, DbFault} \cup SeqFaults(1) :
        Follow(p[1], p[2], fault)

FaultUnfollow ==
    \E p \in FaultFollowInputs, fault \in {NoFault, DbFault} \cup SeqFaults(1) :
        Unfollow(p[1], p[2], fault)

FaultCreate ==
    /\ nextId <= MaxTweets
    /\ \E u \in FaultAuthors :
           \E fault \in {NoFault, DbFault} \cup FanoutFaults(u) :
               CreateTweet(u, NoId, fault)

FaultHome ==
    \E u \in Users, limit \in Limits :
        \E fault \in HomeFaults(limit) : HomeTimeline(u, limit, None, fault)

NextFaults ==
    \/ FaultFollow
    \/ FaultUnfollow
    \/ FaultCreate
    \/ FaultHome
    \/ NextExpire

SpecFaults == Init /\ [][NextFaults]_vars

(***************************************************************************)
(* A client that pages through its home timeline: the first request has no *)
(* cursor, every further request passes the next_cursor of the answer      *)
(* before, until an answer has has_more = false.  The followee, the follow *)
(* graph and the caches are left alone while the client pages: every other *)
(* request and every expiry waits for the client to close.                 *)
(***************************************************************************)
PageOf(r) == [tweets |-> r.tweets, has_more |-> r.has_more]

PageFirst(limit) ==
    /\ ~pager.active
    /\ HomeRequest(PagingReader, limit, None, NoFault)
    /\ pager' = [active |-> TRUE, limit |-> limit, cursor |-> resp'.next_cursor,
                 more |-> resp'.has_more, pages |-> <<PageOf(resp')>>,
                 rebuilt |-> resp'.rebuilt]

PageNext ==
    /\ pager.active
    /\ pager.more
    /\ Len(pager.pages) < MaxPages
    /\ HomeRequest(PagingReader, pager.limit, pager.cursor, NoFault)
    /\ pager' = [pager EXCEPT !.cursor = resp'.next_cursor,
                              !.more = resp'.has_more,
                              !.pages = Append(@, PageOf(resp'))]

PageClose ==
    /\ pager.active
    /\ pager' = IdlePager
    /\ resp' = IdleResp
    /\ UNCHANGED <<cfg, tweets, nextId, follows, followers_count, timeline,
                   timeline_ttl, celebrity_tweets, celebrity_ttl, deleted>>
    /\ UNCHANGED <<realtime, fanouts>>

PagingFollow ==
    /\ ~pager.active
    /\ Follow(PagingReader, PagingAuthor, NoFault)

PagingUnfollow ==
    /\ ~pager.active
    /\ Unfollow(PagingReader, PagingAuthor, NoFault)

PagingCreate ==
    /\ ~pager.active
    /\ nextId <= MaxPosts
    /\ CreateTweet(PagingAuthor, NoId, NoFault)

PagingExpire ==
    /\ ~pager.active
    /\ ExpireTimeline(PagingReader)

PagingHome ==
    /\ ~pager.active
    /\ \E limit \in PagingLimits, cursor \in CursorInputs :
           HomeTimeline(PagingReader, limit, cursor, NoFault)

PagingUser ==
    /\ ~pager.active
    /\ \E limit \in PagingLimits, cursor \in CursorInputs :
           UserTimeline(PagingAuthor, limit, cursor, NoFault)

NextPaging ==
    \/ PagingFollow
    \/ PagingUnfollow
    \/ PagingCreate
    \/ PagingExpire
    \/ PagingHome
    \/ PagingUser
    \/ \E limit \in PagingLimits : PageFirst(limit)
    \/ PageNext
    \/ PageClose

InitPaging ==
    /\ cfg = DefaultSettings
    /\ InitStore

SpecPaging == InitPaging /\ [][NextPaging]_vars

(***************************************************************************)
(* Properties of the fan-out and of the home timeline.                     *)
(***************************************************************************)
\* The answer of get_home_timeline(user_id, limit) without a cursor in the
\* current state.
HomeNow(user_id, limit) ==
    get_home_timeline(timeline[user_id], timeline_ttl[user_id], celebrity_tweets,
                      user_id, limit, None, NoFault)

\* The last request was a POST /tweets that was answered 201 on this path.
Published(path) ==
    /\ resp.op = "create"
    /\ resp.status = 201
    /\ resp.path = path

\* C1: when an account whose followers_count is below the celebrity threshold
\* has published a post and the fan-out has completed, the post id is in the
\* Publish Cache key of every follower, and one get_home_timeline call of any
\* follower (any limit, no cursor) answers the post without a rebuild from
\* the Durable Store.
C1_RegularFanoutReachesFollowers ==
    Published("regular") =>
        \A f \in FollowerIds(resp.user) :
            /\ Str(resp.tweet_id) \in timeline[f]
            /\ \A limit \in Limits :
                   /\ HomeNow(f, limit).status = 200
                   /\ ~HomeNow(f, limit).rebuilt
                   /\ resp.tweet_id \in Range(HomeNow(f, limit).tweets)

\* A regular account published its post to a follower whose Publish Cache key
\* is at timeline_max_size after the fan-out and lacks an older post: the
\* state the eviction of the oldest id leaves.
C1_Witness ==
    /\ Published("regular")
    /\ \E f \in FollowerIds(resp.user) :
           /\ Cardinality(timeline[f]) = cfg.timeline_max_size
           /\ \E t \in tweets : t.id < resp.tweet_id /\ Str(t.id) \notin timeline[f]

C8_FanoutFailureAbsorbed ==
    (resp.op = "create" /\ resp.fault = "redis") =>
        /\ resp.status = 201
        /\ HasRow(resp.tweet_id)

\* C9: when a Redis command raises in get_home_timeline and the Durable
\* Store is reachable, GET /timeline/home still answers 200.
C9_HomeSurvivesCacheFailure ==
    (resp.op = "home" /\ resp.fault = "redis") => resp.status = 200

\* C5: once remove_from_timelines and TweetService.delete have completed for
\* a post, no later get_home_timeline answer of any user contains its id:
\* neither the answer the last request got nor the answer any user would get
\* now, at any limit.
C5_DeletedPostNotServed ==
    /\ (resp.op = "home" => Range(resp.tweets) \cap deleted = {})
    /\ \A u \in Users, limit \in Limits :
           Range(HomeNow(u, limit).tweets) \cap deleted = {}

\* A home timeline was read whose caches still held the id of a deleted
\* post (the retraction missed the key), and the answer left it out.
C5_Witness ==
    /\ resp.op = "home"
    /\ resp.status = 200
    /\ \E id \in deleted : Str(id) \in resp.cached \cup resp.celebrity

C7_FanoutIdempotent ==
    (resp.op = "create" /\ resp.status = 201) =>
        LET Same(again) ==
                /\ again.timeline = timeline
                /\ again.celebrity_tweets = celebrity_tweets
                /\ \A u \in Users :
                       /\ Cardinality(again.timeline[u]) = Cardinality(timeline[u])
                       /\ Cardinality(again.celebrity_tweets[u]) =
                              Cardinality(celebrity_tweets[u])
        IN  Same(fanout_tweet(timeline, timeline_ttl, celebrity_tweets, celebrity_ttl,
                              get_by_id(resp.tweet_id), resp.user,
                              followers_count[resp.user], NoFault))

\* The post just published went to a Publish Cache key that is full, the
\* case in which a second ZADD and trim could evict.
C7_Witness ==
    /\ Published("regular")
    /\ \E f \in FollowerIds(resp.user) :
           /\ Str(resp.tweet_id) \in timeline[f]
           /\ Cardinality(timeline[f]) >= cfg.timeline_max_size

(***************************************************************************)
(* Properties of paging and of cursors.                                    *)
(***************************************************************************)
RECURSIVE Concat(_)
Concat(pages) ==
    IF pages = <<>> THEN <<>> ELSE Head(pages).tweets \o Concat(Tail(pages))

\* The ids of the posts of the users user_id follows.
FolloweePostIds(user_id) ==
    {t.id : t \in {x \in tweets : x.author_id \in FollowingIds(user_id)}}

\* C3: a client that starts without a cursor and passes each next_cursor on
\* while has_more is true gets pages that are pairwise disjoint, every page
\* before the last with exactly limit posts and has_more = true, the last
\* with has_more = false, and all pages together are the ids of the
\* followees' posts, each once, in descending order.  Stated for the client
\* whose first page was rebuilt from the Durable Store (its Publish Cache key
\* was empty), while nobody posts, follows or unfollows and no key expires.
C3_PagesCoverFolloweePosts ==
    (pager.active /\ ~pager.more /\ pager.rebuilt) =>
        LET n == Len(pager.pages)
            all == Concat(pager.pages)
            ids == FolloweePostIds(PagingReader)
        IN  /\ \A i \in 1..(n - 1) :
                   /\ pager.pages[i].has_more
                   /\ Len(pager.pages[i].tweets) = pager.limit
            /\ \A i \in 1..Len(all), j \in 1..Len(all) : i # j => all[i] # all[j]
            /\ all = TopDesc(ids, Cardinality(ids))

\* The fan-out results of the posts of the users user_id follows: what
\* _fanout_regular leaves in an empty Publish Cache key after it has run for
\* each of these posts, oldest first.
RECURSIVE WarmFrom(_, _)
WarmFrom(S, ids) ==
    IF ids = {} THEN S
    ELSE LET id == CHOOSE x \in ids : \A y \in ids : x <= y
         IN  WarmFrom(PushWrite(S, [id |-> id]), ids \ {id})
WarmTimeline(user_id) == WarmFrom({}, FolloweePostIds(user_id))

\* What of an answer of get_home_timeline the client sees.
Seen(r) == [status |-> r.status, tweets |-> r.tweets, has_more |-> r.has_more,
            next_cursor |-> r.next_cursor]

\* C4: for any limit and cursor, get_home_timeline on an empty Publish Cache
\* key, with posts of the followees in the Durable Store, answers the page,
\* has_more and next_cursor it answers on the warm key that holds the
\* fan-out results of those posts.
C4_ColdEqualsWarm ==
    FolloweePostIds(PagingReader) # {} =>
        \A limit \in PagingLimits, cursor \in CursorInputs :
            Seen(get_home_timeline({}, 0, celebrity_tweets, PagingReader,
                                   limit, cursor, NoFault))
            = Seen(get_home_timeline(WarmTimeline(PagingReader), 0, celebrity_tweets,
                                     PagingReader, limit, cursor, NoFault))

\* A cursor string that is no number: it has no digit, or a character that
\* is neither a digit, a sign, an underscore nor a blank.
NonNumeric(cursor) ==
    /\ cursor # None
    /\ \/ \A i \in 1..Len(cursor) : cursor[i] \notin DigitSet
       \/ \E i \in 1..Len(cursor) : cursor[i] \notin DigitSet \cup {"+", "-", "_", " "}

\* C10: with a non-numeric cursor string get_home_timeline and
\* get_user_timeline raise nothing and answer the page, has_more and
\* next_cursor they answer without a cursor.
C10_MalformedCursorIsNoCursor ==
    /\ (resp.op \in {"home", "user"} /\ NonNumeric(resp.cursor)) => resp.status = 200
    /\ \A cursor \in CursorInputs, limit \in PagingLimits :
           NonNumeric(cursor) =>
               /\ Seen(get_home_timeline(timeline[PagingReader],
                                          timeline_ttl[PagingReader], celebrity_tweets,
                                          PagingReader, limit, cursor, NoFault))
                  = Seen(get_home_timeline(timeline[PagingReader],
                                           timeline_ttl[PagingReader], celebrity_tweets,
                                           PagingReader, limit, None, NoFault))
               /\ get_user_timeline(PagingAuthor, limit, cursor, NoFault)
                  = get_user_timeline(PagingAuthor, limit, None, NoFault)

\* A home timeline request with a cursor that starts with a digit and is no
\* number was answered the first page of a timeline that has a second one.
C10_Witness ==
    /\ resp.op = "home"
    /\ resp.status = 200
    /\ resp.cursor = <<"1", "a">>
    /\ resp.tweets # <<>>
    /\ resp.has_more
    /\ resp.next_cursor # None

\* C11: when the cursor of a get_home_timeline or get_user_timeline request
\* parses as an integer c, 0 included, every id of the answered page is
\* strictly less than c.
C11_PageBelowCursor ==
    (resp.op \in {"home", "user"} /\ resp.status = 200 /\ ParseCursor(resp.cursor).ok) =>
        \A i \in 1..Len(resp.tweets) : resp.tweets[i] < ParseCursor(resp.cursor).val

\* C12: whenever get_home_timeline answers has_more = true, next_cursor is
\* not null and is the decimal id of the last post contained in the page.
C12_NextCursorIsLastServed ==
    (resp.op = "home" /\ resp.status = 200 /\ resp.has_more) =>
        /\ resp.next_cursor # None
        /\ Len(resp.tweets) > 0
        /\ resp.next_cursor = Str(resp.tweets[Len(resp.tweets)])

(***************************************************************************)
(* Reads of two posts per page with both fan-out paths in use: the         *)
(* settings of Settings with celebrity_threshold = 2, the limit of the     *)
(* timeline requests up to 2 and room for a rebuild of 2 * limit ids.      *)
(***************************************************************************)
MergeSettings ==
    [celebrity_threshold |-> 2, timeline_cache_ttl |-> 300,
     timeline_max_size |-> 4, page_limit_le |-> 2]

InitMerge == cfg = MergeSettings /\ InitStore

NextMerge == NextFollow \/ NextUnfollow \/ NextCreate \/ NextHome

SpecMerge == InitMerge /\ [][NextMerge]_vars

\* C13: every page answered by get_home_timeline lists its posts in strictly
\* descending id order, no id twice, also when an id is held both by the
\* reader's timeline key and by the celebrity key of an author they follow.
C13_PageStrictlyDescending ==
    (resp.op = "home" /\ resp.status = 200) =>
        \A i \in 1..Len(resp.tweets) : \A j \in 1..Len(resp.tweets) :
            i < j => resp.tweets[i] > resp.tweets[j]

\* A page of two posts, one of them read from both keys.
C13_Witness ==
    /\ resp.op = "home"
    /\ resp.status = 200
    /\ Len(resp.tweets) = 2
    /\ \E m \in resp.cached \cap resp.celebrity :
           \E i \in 1..Len(resp.tweets) : resp.tweets[i] = IntOf(m)

(***************************************************************************)
(* The real-time feed: the /ws endpoint of app/main.py, ConnectionManager  *)
(* and the listener task.  The listener handles one event in one step: the *)
(* registry is only touched by coroutines of one event loop, and a         *)
(* delivery attempt does not wait for the peer.                            *)
(***************************************************************************)
\* ConnectionManager.connect(websocket, user_id), without the listener task.
connect(conns, websocket, user_id) ==
    [k \in DOMAIN conns \cup {user_id} |->
        (IF k \in DOMAIN conns THEN conns[k] ELSE {})
            \cup (IF k = user_id THEN {websocket} ELSE {})]

\* ConnectionManager.disconnect(websocket, user_id).
disconnect(conns, websocket, user_id) ==
    IF user_id \notin DOMAIN conns THEN conns
    ELSE IF conns[user_id] \ {websocket} = {}
    THEN [k \in DOMAIN conns \ {user_id} |-> conns[k]]
    ELSE [conns EXCEPT ![user_id] = @ \ {websocket}]

\* websocket_endpoint(websocket, token) with the token of a login, up to the
\* receive loop: the key of the registry is payload.get("sub") as decoded.
\* The first connect starts the listener task, which subscribes.
WsConnect(websocket, user) ==
    LET payload == decode_token(login(user))
        user_id == PyStr(payload.sub)
    IN  /\ websockets[websocket].state = "new"
        /\ \A ws \in WebSockets : ws < websocket => websockets[ws].state # "new"
        /\ active_connections' = connect(active_connections, websocket, user_id)
        /\ websockets' = [websockets EXCEPT
                              ![websocket] = [state |-> "open", user |-> user]]
        /\ pubsub' = start_listener(pubsub)
        /\ resp' = IdleResp
        /\ UNCHANGED <<fanouts, cfg, tweets, nextId, follows, followers_count, timeline,
                       timeline_ttl, celebrity_tweets, celebrity_ttl, deleted,
                       pager, handled>>

\* The peer of an open WebSocket goes away: from now on send_json raises.
WsBreak(websocket) ==
    /\ websockets[websocket].state = "open"
    /\ websockets' = [websockets EXCEPT ![websocket].state = "broken"]
    /\ resp' = IdleResp
    /\ UNCHANGED <<fanouts, cfg, tweets, nextId, follows, followers_count, timeline,
                   timeline_ttl, celebrity_tweets, celebrity_ttl, deleted,
                   pager, active_connections, pubsub, handled>>

\* websocket_endpoint leaves its receive loop: receive_json raised
\* WebSocketDisconnect or another exception, and manager.disconnect runs.
WsDisconnect(websocket) ==
    /\ websockets[websocket].state \in {"open", "broken"}
    /\ active_connections' =
           disconnect(active_connections, websocket,
                      PyStr(decode_token(login(websockets[websocket].user)).sub))
    /\ websockets' = [websockets EXCEPT ![websocket].state = "closed"]
    /\ resp' = IdleResp
    /\ UNCHANGED <<fanouts, cfg, tweets, nextId, follows, followers_count, timeline,
                   timeline_ttl, celebrity_tweets, celebrity_ttl, deleted,
                   pager, pubsub, handled>>

\* The WebSockets whose send_json raises.
Failing == {ws \in WebSockets : websockets[ws].state = "broken"}

\* One turn of the loop of _listen_to_redis: the next message of the channel
\* goes through _handle_realtime_event.
Listen ==
    LET event == Head(pubsub.messages)
        Done(r) ==
            /\ active_connections' = r.active_connections
            /\ handled' = [type |-> event.type, event |-> event,
                           before |-> active_connections,
                           attempted |-> r.attempted, failed |-> r.failed]
    IN  /\ pubsub.listening
        /\ pubsub.messages # <<>>
        /\ Done(_handle_realtime_event(active_connections, Failing, event))
        /\ pubsub' = [pubsub EXCEPT !.messages = Tail(@)]
        /\ resp' = IdleResp
        /\ UNCHANGED <<fanouts, cfg, tweets, nextId, follows, followers_count, timeline,
                       timeline_ttl, celebrity_tweets, celebrity_ttl, deleted,
                       pager, websockets>>

RealtimeFollow ==
    \E p \in FaultFollowInputs : Follow(p[1], p[2], NoFault)

RealtimeCreate ==
    /\ nextId <= MaxEvents
    /\ Len(pubsub.messages) < MaxMessages
    /\ \E user_id \in FaultAuthors : CreateTweet(user_id, NoId, NoFault)

RealtimeDelete ==
    /\ Len(pubsub.messages) < MaxMessages
    /\ \E user_id \in FaultAuthors, tweet_id \in TweetIds :
           DeleteTweet(user_id, tweet_id, NoFault, "nullify")

\* The users who open WebSockets: the two who may follow the author.
Listeners == {p[1] : p \in FaultFollowInputs}

RealtimeConnect ==
    \E websocket \in WebSockets, user \in Listeners : WsConnect(websocket, user)

RealtimeBreak ==
    \E websocket \in WebSockets : WsBreak(websocket)

RealtimeDisconnect ==
    \E websocket \in WebSockets : WsDisconnect(websocket)

NextRealtime ==
    \/ RealtimeFollow
    \/ RealtimeCreate
    \/ RealtimeDelete
    \/ RealtimeConnect
    \/ RealtimeBreak
    \/ RealtimeDisconnect
    \/ Listen

SpecRealtime == Init /\ [][NextRealtime]_vars

\* The WebSockets an event is meant for among the ones registered when the
\* listener took it: the ones of the users of follower_ids for a new_tweet
\* event, all of them for a tweet_deleted event.
Targeted ==
    IF handled.type = "new_tweet"
    THEN {ws \in Registered(handled.before) :
             websockets[ws].user \in handled.event.follower_ids}
    ELSE Registered(handled.before)

\* C14: while the listener handles one event, a WebSocket whose send_json
\* fails is removed from active_connections, and every other WebSocket the
\* event is meant for, of the same user and of other users, still gets its
\* send_json.
C14_FailedDeliveryIsolated ==
    (handled.type # "none" /\ handled.failed # {}) =>
        /\ Targeted \subseteq handled.attempted
        /\ handled.failed \cap Registered(active_connections) = {}

\* An event for which one send_json failed while a second WebSocket of the
\* same user and a WebSocket of another user were registered.
C14_Witness ==
    /\ handled.type # "none"
    /\ \E f \in handled.failed :
         \E ws1 \in handled.attempted \ handled.failed :
           \E ws2 \in handled.attempted \ handled.failed :
             /\ websockets[ws1].user = websockets[f].user
             /\ websockets[ws2].user # websockets[f].user

\* C15: when a new_tweet event is handled, send_json is attempted on every
\* WebSocket registered through the /ws endpoint for a user of the event's
\* follower_ids, and on no other WebSocket.
C15_PostedEventReachesFollowers ==
    handled.type = "new_tweet" => handled.attempted = Targeted

\* C16: when a tweet_deleted event is handled, send_json is attempted on
\* every WebSocket of active_connections at that moment, whoever its user
\* follows.
C16_DeletedEventReachesAll ==
    handled.type = "tweet_deleted" =>
        handled.attempted = Registered(handled.before)

\* A tweet_deleted event handled while the WebSockets of two users were
\* registered, one of a user who follows nobody.
C16_Witness ==
    /\ handled.type = "tweet_deleted"
    /\ \E ws1 \in handled.attempted, ws2 \in handled.attempted :
           /\ websockets[ws1].user # websockets[ws2].user
           /\ FollowingIds(websockets[ws1].user) = {}

\* C17: every completed fanout_tweet call, on the push path and on the pull
\* path and whatever the number of followers, publishes exactly one
\* new_tweet event, whose follower_ids are the author's followers of that
\* moment.
C17_OnePostedEventPerFanout ==
    (resp.op = "create" /\ resp.status = 201) =>
        /\ Len(resp.events) = 1
        /\ resp.events[1].type = "new_tweet"
        /\ resp.events[1].tweet_id = resp.tweet_id
        /\ resp.events[1].follower_ids = FollowerIds(resp.user)

(***************************************************************************)
(* The user timeline: tweets and replies of several authors, reads of      *)
(* GET /timeline/user/{user_id} with any cursor, and a client that follows *)
(* next_cursor from the first page of one author while nobody writes.      *)
(***************************************************************************)
AuthorCreate ==
    /\ ~pager.active
    /\ nextId <= MaxPosts
    /\ \E user_id \in Authors, reply_to_id \in {NoId} \cup TweetIds :
           CreateTweet(user_id, reply_to_id, NoFault)

AuthorRead ==
    /\ ~pager.active
    /\ \E target_user_id \in Authors, limit \in PagingLimits, cursor \in CursorInputs :
           UserTimeline(target_user_id, limit, cursor, NoFault)

AuthorPageOf(r) ==
    [tweets |-> r.tweets, has_more |-> r.has_more, next_cursor |-> r.next_cursor]

AuthorPageFirst(target_user_id, limit) ==
    /\ ~pager.active
    /\ UserRequest(target_user_id, limit, None, NoFault)
    /\ pager' = [active |-> TRUE, target |-> target_user_id, limit |-> limit,
                 cursor |-> resp'.next_cursor, more |-> resp'.has_more,
                 pages |-> <<AuthorPageOf(resp')>>]

AuthorPageNext ==
    /\ pager.active
    /\ pager.more
    /\ Len(pager.pages) < MaxPages
    /\ UserRequest(pager.target, pager.limit, pager.cursor, NoFault)
    /\ pager' = [pager EXCEPT !.cursor = resp'.next_cursor,
                              !.more = resp'.has_more,
                              !.pages = Append(@, AuthorPageOf(resp'))]

NextAuthor ==
    \/ AuthorCreate
    \/ AuthorRead
    \/ \E target_user_id \in Authors, limit \in PagingLimits :
           AuthorPageFirst(target_user_id, limit)
    \/ AuthorPageNext
    \/ PageClose

SpecAuthor == InitPaging /\ [][NextAuthor]_vars

\* The top-level tweets of an author, as the rows say.
TopLevelIds(author_id) ==
    {t.id : t \in {x \in tweets : x.author_id = author_id /\ x.reply_to_id = NoId}}

\* C18: get_user_timeline(target) answers only tweets whose author is target
\* and which are not replies, in strictly descending id order, at most limit
\* of them.
C18_UserTimelineOwnTopLevel ==
    (resp.op = "user" /\ resp.status = 200) =>
        /\ \A i \in 1..Len(resp.tweets) : resp.tweets[i] \in TopLevelIds(resp.user)
        /\ \A i \in 1..Len(resp.tweets) : \A j \in 1..Len(resp.tweets) :
               i < j => resp.tweets[i] > resp.tweets[j]
        /\ Len(resp.tweets) <= resp.limit

\* A page of two tweets of the target, answered while the target also has a
\* reply and another author has a top-level tweet.
C18_Witness ==
    /\ resp.op = "user"
    /\ resp.status = 200
    /\ Len(resp.tweets) = 2
    /\ \E t \in tweets : t.author_id = resp.user /\ t.reply_to_id # NoId
    /\ \E t \in tweets : t.author_id # resp.user /\ t.reply_to_id = NoId

\* C19: for an author with N top-level tweets and no write in between,
\* following next_cursor from the first get_user_timeline page gives
\* pairwise disjoint pages that hold the N tweets exactly once; every page
\* before the last holds limit tweets with has_more = true and a next_cursor,
\* and the last page has has_more = false.
C19_AuthorPagesCoverAll ==
    (pager.active /\ ~pager.more) =>
        LET n == Len(pager.pages)
            all == Concat(pager.pages)
        IN  /\ all = TopDesc(TopLevelIds(pager.target),
                             Cardinality(TopLevelIds(pager.target)))
            /\ \A i \in 1..(n - 1) :
                   /\ Len(pager.pages[i].tweets) = pager.limit
                   /\ pager.pages[i].has_more
                   /\ pager.pages[i].next_cursor # None
            /\ ~pager.pages[n].has_more

\* A paging of three pages or more that came to its end.
C19_Witness ==
    /\ pager.active
    /\ ~pager.more
    /\ Len(pager.pages) >= 3
    /\ \E t \in tweets : t.author_id = pager.target /\ t.reply_to_id # NoId

\* C20: fanout_tweet returns the number of the author's followers when it
\* takes the push path, and 1 when it takes the pull path, whatever the
\* number of followers.
C20_FanoutReturnValue ==
    (resp.op = "create" /\ resp.status = 201) =>
        /\ resp.path = "regular" => resp.count = Cardinality(FollowerIds(resp.user))
        /\ resp.path = "celebrity" => resp.count = 1

\* A tweet of an author with two followers that took the pull path.
C20_Witness ==
    /\ resp.op = "create"
    /\ resp.status = 201
    /\ resp.path = "celebrity"
    /\ Cardinality(FollowerIds(resp.user)) >= 2

\* C21: after remove_from_timelines(tweet, author) has completed, the id of
\* the tweet is in the timeline key of no follower of the author and not in
\* the author's celebrity key, whichever path the tweet was fanned out on.
C21_RetractClearsCaches ==
    (resp.op = "delete" /\ resp.status = 204) =>
        /\ \A f \in FollowerIds(resp.user) : Str(resp.tweet_id) \notin timeline[f]
        /\ Str(resp.tweet_id) \notin celebrity_tweets[resp.user]

C24_CacheWorkAfterDurableWrite ==
    /\ (resp.op = "create" /\ resp.events # <<>>) => HasRow(resp.tweet_id)
    /\ (resp.op = "delete" /\ resp.events # <<>>) => ~HasRow(resp.tweet_id)

\* The ids of the top-level tweets of the users user_id follows whose
\* followers_count is below celebrity_threshold.
PushFolloweeTopLevelIds(user_id) ==
    {t.id : t \in {x \in tweets : /\ x.author_id \in FollowingIds(user_id)
                                  /\ ~IsCelebrity(followers_count[x.author_id])
                                  /\ x.reply_to_id = NoId}}

\* C25: get_home_timeline rebuilds exactly when the ids read from the
\* caller's timeline key and from the celebrity keys of the users they follow
\* are together empty, and the rebuild puts into the caller's timeline key
\* only the most recent ids of top-level tweets of followed users who are
\* below the celebrity threshold.
C25_RebuildOnlyPushFollowees ==
    (resp.op = "home" /\ resp.status = 200) =>
        /\ resp.rebuilt <=> (resp.cached \cup resp.celebrity = {})
        /\ resp.rebuilt =>
               timeline[resp.user] =
                   {Str(id) : id \in Range(TopDesc(PushFolloweeTopLevelIds(resp.user),
                                                   2 * resp.limit))}

(***************************************************************************)
(* The trims at work.  User 1 has two followers and is on the pull path;   *)
(* they have posted WindowFill tweets, all in celebrity_tweets:1, so that  *)
(* the next tweets reach the window of CELEBRITY_WINDOW ids.  User 2 has   *)
(* one follower, user 3, and is on the push path with timeline_max_size 2. *)
(* Nobody follows or unfollows, and no timeline key expires.               *)
(***************************************************************************)
WindowFills == (CELEBRITY_WINDOW - 1)..CELEBRITY_WINDOW

InitTrim ==
    /\ cfg = ScaledSettings
    /\ \E n \in WindowFills :
           /\ tweets = {[id |-> k, author_id |-> 1, reply_to_id |-> NoId] : k \in 1..n}
           /\ nextId = n + 1
           /\ celebrity_tweets = [u \in Users |->
                                     IF u = 1 THEN {Str(k) : k \in 1..n} ELSE {}]
    /\ follows = {<<2, 1>>, <<3, 1>>, <<3, 2>>}
    /\ followers_count = [u \in Users |-> Cardinality(FollowerIds(u))]
    /\ timeline = [u \in Users |-> {}]
    /\ timeline_ttl = [u \in Users |-> 0]
    /\ celebrity_ttl = [u \in Users |-> IF u = 1 THEN cfg.timeline_cache_ttl * 2 ELSE 0]
    /\ deleted = {}
    /\ resp = IdleResp
    /\ pager = IdlePager
    /\ active_connections = [user_id \in {} |-> {}]
    /\ websockets = [ws \in WebSockets |-> NewWebSocket]
    /\ pubsub = NewPubsub
    /\ handled = IdleHandled
    /\ fanouts = {}

\* The authors post, delete their oldest or newest tweet, user 3 reads the
\* home timeline, and the key of the pull-path author expires.
NextTrim ==
    \/ /\ nextId <= CELEBRITY_WINDOW + MaxTrimPosts
       /\ \E user_id \in Authors : CreateTweet(user_id, NoId, NoFault)
    \/ \E user_id \in Authors, tweet_id \in TweetIds \cap {1, nextId - 1} :
           DeleteTweet(user_id, tweet_id, NoFault, "nullify")
    \/ \E limit \in Limits : HomeTimeline(NumUsers, limit, None, NoFault)
    \/ \E author_id \in {u \in Authors : IsCelebrity(followers_count[u])} :
           ExpireCelebrity(author_id)

SpecTrim == InitTrim /\ [][NextTrim]_vars

\* C26: whenever a push fan-out write evicts ids from a timeline key, every
\* evicted id is lower than every id that stays: after the write the key
\* holds exactly the timeline_max_size highest ids among its previous members
\* and the inserted id.
C26_PushEvictsLowest ==
    [][(nextId' # nextId /\ resp'.op = "create" /\ resp'.status = 201
          /\ resp'.path = "regular") =>
          \A f \in FollowerIds(resp'.user) :
              LET old == IdsOf(timeline[f]) \cup {resp'.tweet_id}
                  new == IdsOf(timeline'[f])
              IN  /\ new = Range(TopDesc(old, cfg.timeline_max_size))
                  /\ \A e \in old \ new : \A k \in new : e < k]_vars

\* A push fan-out after which the key of the follower holds the
\* timeline_max_size newest ids while an older tweet of the same author, which
\* was pushed into the key when it was posted, still has its row.
C26_Witness ==
    /\ resp.op = "create"
    /\ resp.status = 201
    /\ resp.path = "regular"
    /\ \E f \in FollowerIds(resp.user) :
           /\ Cardinality(timeline[f]) = cfg.timeline_max_size
           /\ \E t \in tweets :
                  /\ t.author_id = resp.user
                  /\ Str(t.id) \notin timeline[f]
                  /\ \A m \in timeline[f] : t.id < IntOf(m)

\* C27: after every pull fan-out the author's celebrity key holds at most
\* CELEBRITY_WINDOW ids, the highest among its previous members and the
\* inserted id, and its time-to-live is twice timeline_cache_ttl.
C27_CelebrityWindow ==
    [][(nextId' # nextId /\ resp'.op = "create" /\ resp'.status = 201
          /\ resp'.path = "celebrity") =>
          LET old == IdsOf(celebrity_tweets[resp'.user]) \cup {resp'.tweet_id}
              new == IdsOf(celebrity_tweets'[resp'.user])
          IN  /\ Cardinality(new) <= CELEBRITY_WINDOW
              /\ new \subseteq old
              /\ Cardinality(new) = Min(CELEBRITY_WINDOW, Cardinality(old))
              /\ \A e \in old \ new : \A k \in new : e < k
              /\ celebrity_ttl'[resp'.user] = 2 * cfg.timeline_cache_ttl]_vars

\* A pull fan-out after which the key is full and the author's oldest tweet,
\* which the key held at the start, is no longer in it.
C27_Witness ==
    /\ resp.op = "create"
    /\ resp.status = 201
    /\ resp.path = "celebrity"
    /\ Cardinality(celebrity_tweets[resp.user]) = CELEBRITY_WINDOW
    /\ HasRow(1)
    /\ Str(1) \notin celebrity_tweets[resp.user]

\* C28: every timeline key that exists, whether a push fan-out or a rebuild
\* created it, carries a time-to-live of at most timeline_cache_ttl, so that
\* it expires and a celebrity key refreshed at the same moment, which lives
\* twice timeline_cache_ttl, outlives it.
C28_TimelineKeyHasTtl ==
    \A u \in Users :
        timeline[u] # {} => timeline_ttl[u] \in 1..cfg.timeline_cache_ttl

\* C29: a successful follow or unfollow by a user deletes that user's own
\* timeline key and changes no other key: the timeline keys of the other
\* users and every celebrity key, with their times-to-live, are as before,
\* also when the followed user's followers_count crosses celebrity_threshold.
C29_FollowChangeDeletesOwnKeyOnly ==
    [][(resp'.op \in {"follow", "unfollow"} /\ resp'.status = 200
          /\ follows' # follows) =>
          /\ timeline'[resp'.user] = {}
          /\ timeline_ttl'[resp'.user] = 0
          /\ \A u \in Users \ {resp'.user} :
                 /\ timeline'[u] = timeline[u]
                 /\ timeline_ttl'[u] = timeline_ttl[u]
          /\ celebrity_tweets' = celebrity_tweets
          /\ celebrity_ttl' = celebrity_ttl]_vars

\* A follow that has just taken the followed user to celebrity_threshold
\* while another follower's timeline key holds a tweet of the followed user
\* and the followed user's celebrity key is not empty.
C29_Witness ==
    /\ resp.op = "follow"
    /\ resp.status = 200
    /\ followers_count[resp.target] = cfg.celebrity_threshold
    /\ timeline[resp.user] = {}
    /\ celebrity_tweets[resp.target] # {}
    /\ \E u \in Users \ {resp.user} :
           \E t \in tweets : t.author_id = resp.target /\ Str(t.id) \in timeline[u]

(***************************************************************************)
(* The listener task.  connect waits for websocket.accept() before it      *)
(* registers the WebSocket and looks at _pubsub_task, so several connects  *)
(* can be past their accept at once; from the registration to create_task  *)
(* the coroutine does not yield.  pubsub.listen() can raise (the Redis     *)
(* connection is lost): _listen_to_redis catches the exception,             *)
(* unsubscribes and finishes, and the next connect starts a new task.      *)
(***************************************************************************)
\* websocket_endpoint with the token of a login, up to await websocket.accept().
WsAccept(websocket, user) ==
    /\ websockets[websocket].state = "new"
    /\ \A ws \in WebSockets : ws < websocket => websockets[ws].state # "new"
    /\ websockets' = [websockets EXCEPT
                          ![websocket] = [state |-> "accepting", user |-> user]]
    /\ resp' = IdleResp
    /\ UNCHANGED <<fanouts, cfg, tweets, nextId, follows, followers_count, timeline,
                   timeline_ttl, celebrity_tweets, celebrity_ttl, deleted,
                   pager, active_connections, pubsub, handled>>

\* connect after accept() returned: the registration and the listener check.
WsRegister(websocket) ==
    LET payload == decode_token(login(websockets[websocket].user))
        user_id == PyStr(payload.sub)
    IN  /\ websockets[websocket].state = "accepting"
        /\ active_connections' = connect(active_connections, websocket, user_id)
        /\ websockets' = [websockets EXCEPT ![websocket].state = "open"]
        /\ pubsub' = start_listener(pubsub)
        /\ resp' = IdleResp
        /\ UNCHANGED <<fanouts, cfg, tweets, nextId, follows, followers_count, timeline,
                       timeline_ttl, celebrity_tweets, celebrity_ttl, deleted,
                       pager, handled>>

\* pubsub.listen() raises in a listener task: the task prints the error,
\* unsubscribes and is done; the messages Redis held for it are lost.
ListenerEnds ==
    \E task \in pubsub.tasks :
        LET left == pubsub.tasks \ {task}
        IN  /\ pubsub' = [pubsub EXCEPT
                              !.tasks = left,
                              !.listening = (left # {}),
                              !.messages = IF left = {} THEN <<>> ELSE @]
            /\ resp' = IdleResp
            /\ UNCHANGED <<fanouts, cfg, tweets, nextId, follows, followers_count,
                           timeline, timeline_ttl, celebrity_tweets,
                           celebrity_ttl, deleted, pager, active_connections,
                           websockets, handled>>

NextListener ==
    \/ RealtimeFollow
    \/ RealtimeCreate
    \/ \E websocket \in WebSockets, user \in Listeners : WsAccept(websocket, user)
    \/ \E websocket \in WebSockets : WsRegister(websocket)
    \/ RealtimeDisconnect
    \/ ListenerEnds
    \/ Listen

SpecListener == Init /\ [][NextListener]_vars

\* C30: whatever connects (also several past their accept at once),
\* disconnects and deliveries have happened, at most one _listen_to_redis
\* task is running.
C30_AtMostOneListener == Cardinality(pubsub.tasks) <= 1

\* A second listener task runs after the first one ended, one WebSocket is
\* registered and the connect of another one is waiting for its accept.
C30_Witness ==
    /\ pubsub.task >= 2
    /\ pubsub.tasks = {pubsub.task}
    /\ \E ws \in WebSockets : websockets[ws].state = "open"
    /\ \E ws \in WebSockets : websockets[ws].state = "accepting"

(***************************************************************************)
(* Push fan-outs at the grain of their awaits.  Each Redis command of      *)
(* _fanout_regular is awaited on its own, so between the ZADD and the      *)
(* trim of one follower's key the event loop can run another request: a    *)
(* second create_tweet, or a reader.  A member of fanouts is a call of     *)
(* _fanout_regular in flight: its tweet, the follower_ids it read, the     *)
(* followers not yet served (todo) and the follower whose key has had the  *)
(* ZADD but not the trim (at).  The row of the tweet is committed by        *)
(* get_db after the handler returned.                                      *)
(***************************************************************************)
\* Users 1 and 2 post, user 3 follows them: both stay on the push path.
ConcurrentFollowInputs == {<<NumUsers, a>> : a \in Authors}

\* create_tweet on the push path up to the loop of _fanout_regular:
\* TweetService.create has flushed the row and follower_ids has been read.
FanoutBegin(user_id) ==
    LET tweet == [id |-> nextId, author_id |-> user_id, reply_to_id |-> NoId]
    IN  /\ ~IsCelebrity(followers_count[user_id])
        /\ FollowerIds(user_id) # {}
        /\ nextId' = nextId + 1
        /\ fanouts' = fanouts \cup {[tweet |-> tweet,
                                     follower_ids |-> FollowerIds(user_id),
                                     todo |-> FollowerIds(user_id),
                                     at |-> NoId]}
        /\ resp' = IdleResp
        /\ UNCHANGED <<cfg, tweets, follows, followers_count, timeline,
                       timeline_ttl, celebrity_tweets, celebrity_ttl, deleted,
                       pager>>
        /\ UNCHANGED realtime

\* await self.redis.zadd(cache_key, {str(tweet.id): float(tweet.id)})
FanoutZadd(f, follower_id) ==
    /\ f.at = NoId
    /\ follower_id \in f.todo
    /\ timeline' = [timeline EXCEPT ![follower_id] = zadd(@, Str(f.tweet.id))]
    /\ fanouts' = (fanouts \ {f}) \cup {[f EXCEPT !.at = follower_id]}
    /\ resp' = IdleResp
    /\ UNCHANGED <<cfg, tweets, nextId, follows, followers_count, timeline_ttl,
                   celebrity_tweets, celebrity_ttl, deleted, pager>>
    /\ UNCHANGED realtime

\* await self.redis.zremrangebyrank(cache_key, 0, -settings.timeline_max_size - 1)
FanoutTrim(f) ==
    /\ f.at # NoId
    /\ timeline' = [timeline EXCEPT ![f.at] = TrimTimeline(@)]
    /\ timeline_ttl' = [timeline_ttl EXCEPT
                            ![f.at] = KeepTtl(timeline'[f.at], @)]
    /\ fanouts' = (fanouts \ {f})
                      \cup {[f EXCEPT !.at = NoId, !.todo = @ \ {f.at}]}
    /\ resp' = IdleResp
    /\ UNCHANGED <<cfg, tweets, nextId, follows, followers_count,
                   celebrity_tweets, celebrity_ttl, deleted, pager>>
    /\ UNCHANGED realtime

\* The loop is over: _publish_realtime, the response, and get_db's commit.
FanoutEnd(f) ==
    LET events == <<NewTweetEvent(f.tweet, f.follower_ids)>>
    IN  /\ f.at = NoId
        /\ f.todo = {}
        /\ tweets' = tweets \cup {f.tweet}
        /\ pubsub' = publish(pubsub, events)
        /\ fanouts' = fanouts \ {f}
        /\ resp' = [op |-> "create", status |-> 201, user |-> f.tweet.author_id,
                    tweet_id |-> f.tweet.id, path |-> "regular",
                    fault |-> NoFault.kind, events |-> events,
                    count |-> Cardinality(f.follower_ids)]
        /\ UNCHANGED <<cfg, nextId, follows, followers_count, timeline,
                       timeline_ttl, celebrity_tweets, celebrity_ttl, deleted,
                       pager>>
        /\ UNCHANGED <<active_connections, websockets, handled>>

NextConcurrent ==
    \/ \E p \in ConcurrentFollowInputs : Follow(p[1], p[2], NoFault)
    \/ \E p \in ConcurrentFollowInputs : Unfollow(p[1], p[2], NoFault)
    \/ /\ nextId <= MaxTweets
       /\ \E user_id \in Authors : FanoutBegin(user_id)
    \/ \E f \in fanouts, follower_id \in Users : FanoutZadd(f, follower_id)
    \/ \E f \in fanouts : FanoutTrim(f)
    \/ \E f \in fanouts : FanoutEnd(f)
    \/ \E limit \in Limits : HomeTimeline(NumUsers, limit, None, NoFault)

SpecConcurrent == Init /\ [][NextConcurrent]_vars

\* C23: while several push fan-outs that target the same follower are in
\* flight, that follower's timeline key never holds more than
\* timeline_max_size ids.
C23_ConcurrentFanoutsKeepBound ==
    \A u \in Users :
        Cardinality({f \in fanouts : u \in f.follower_ids}) >= 2 =>
            Cardinality(timeline[u]) <= cfg.timeline_max_size

\* C31: a get_home_timeline call makes at most one call of
\* _rebuild_timeline, and when that rebuild yields no id the call answers
\* with an empty page, has_more false and no cursor.
C31_AtMostOneRebuild ==
    resp.op = "home" =>
        /\ resp.rebuilds <= 1
        /\ (resp.rebuilt /\ RebuildIds(resp.user, 2 * resp.limit) = <<>>) =>
               /\ resp.status = 200
               /\ resp.tweets = <<>>
               /\ ~resp.has_more
               /\ resp.next_cursor = None

\* A home timeline request of a user who follows somebody, with both caches
\* empty and a rebuild that found no tweet.
C31_Witness ==
    /\ resp.op = "home"
    /\ resp.rebuilt
    /\ resp.rebuilds = 1
    /\ FollowingIds(resp.user) # {}
    /\ RebuildIds(resp.user, 2 * resp.limit) = <<>>
    /\ resp.tweets = <<>>

\* C32: a home page holds at most limit tweets; when has_more is true a
\* tweet older than the last tweet of the page exists; a reader who follows
\* nobody and whose caches gave no id gets an empty page with has_more false.
C32_HasMoreMeansMore ==
    (resp.op = "home" /\ resp.status = 200) =>
        /\ Len(resp.tweets) <= resp.limit
        /\ (resp.has_more /\ resp.tweets # <<>>) =>
               \E t \in tweets : t.id < resp.tweets[Len(resp.tweets)]
        /\ (FollowingIds(resp.user) = {} /\ resp.cached \cup resp.celebrity = {}) =>
               (resp.tweets = <<>> /\ ~resp.has_more)

\* C33: a delete request that is rejected because the caller is not the
\* author of the tweet changes no timeline key and no celebrity key and
\* publishes no tweet_deleted event.
C33_ForeignDeleteTouchesNothing ==
    [][(resp'.op = "delete" /\ resp'.status = 403) =>
          /\ timeline' = timeline
          /\ timeline_ttl' = timeline_ttl
          /\ celebrity_tweets' = celebrity_tweets
          /\ celebrity_ttl' = celebrity_ttl
          /\ resp'.events = <<>>
          /\ pubsub' = pubsub]_vars

\* C40: followers_count of every user is the number of rows of the follows
\* table that point at them, hence never negative; a follow or unfollow that
\* is rejected (self-follow, already following, not following) changes
\* neither the counts, nor the follows table, nor any cache key.
C40_FollowersCountIsTrue ==
    /\ [](\A u \in Users : /\ followers_count[u] = Cardinality(FollowerIds(u))
                            /\ followers_count[u] >= 0)
    /\ [][(resp'.op \in {"follow", "unfollow"} /\ resp'.status = 400) =>
             /\ follows' = follows
             /\ followers_count' = followers_count
             /\ timeline' = timeline
             /\ timeline_ttl' = timeline_ttl
             /\ celebrity_tweets' = celebrity_tweets
             /\ celebrity_ttl' = celebrity_ttl]_vars

\* A follow of an already-followed user has just been rejected while the
\* caller's timeline key held ids and the followed user was at the threshold.
C40_Witness ==
    /\ resp.op = "follow"
    /\ resp.status = 400
    /\ <<resp.user, resp.target>> \in follows
    /\ timeline[resp.user] # {}
    /\ followers_count[resp.target] = cfg.celebrity_threshold

(***************************************************************************)
(* Replies.  POST /tweets takes reply_to_id; create_tweet hands every      *)
(* tweet it created, a reply included, to fanout_tweet.                     *)
(***************************************************************************)
NextReplies ==
    \/ \E p \in FollowInputs : Follow(p[1], p[2], NoFault)
    \/ /\ nextId <= MaxTweets
       /\ \E user_id \in Authors, reply_to_id \in {NoId} \cup TweetIds :
              CreateTweet(user_id, reply_to_id, NoFault)
    \/ \E u \in Users, limit \in Limits : HomeTimeline(u, limit, None, NoFault)
    \/ \E u \in Users : ExpireTimeline(u)

SpecReplies == Init /\ [][NextReplies]_vars

\* C38: every tweet of a home timeline page is a top-level tweet, whether its
\* id came from the caches or from a rebuild.
C38_HomePageTopLevelOnly ==
    (resp.op = "home" /\ resp.status = 200) =>
        \A i \in 1..Len(resp.tweets) :
            \A t \in tweets : t.id = resp.tweets[i] => t.reply_to_id = NoId

\* C37: a home timeline page that is returned with has_more true holds
\* exactly limit tweets.
C37_FullPageWhenMore ==
    (resp.op = "home" /\ resp.status = 200 /\ resp.has_more) =>
        Len(resp.tweets) = resp.limit

\* C35: when a user's home timeline request without cursor directly follows
\* their accepted follow of v, the page holds v's newest top-level tweet
\* provided that tweet is among the limit newest top-level tweets of all the
\* users they follow.
C35_FollowShowsNewest ==
    [][(/\ resp.op = "follow" /\ resp.status = 200
        /\ resp'.op = "home" /\ resp'.status = 200
        /\ resp'.user = resp.user /\ resp'.cursor = None) =>
          \A id \in TopLevelIds(resp.target) :
              (/\ \A other \in TopLevelIds(resp.target) : other <= id
               /\ Str(id) \in Range(RebuildIds(resp.user, resp'.limit)))
                  => id \in Range(resp'.tweets)]_vars

\* C36: once a user has unfollowed v, no home timeline page of that user
\* holds a tweet of v, however the unfollow was interleaved with a fan-out
\* of v: every tweet of a page is by a user the reader follows at that
\* moment.  (In SpecConcurrent a tweet reaches a reader's caches only through
\* a fan-out whose follower_ids held the reader, so a page tweet of an author
\* the reader does not follow is of an author they unfollowed.)
C36_UnfollowedAuthorGone ==
    (resp.op = "home" /\ resp.status = 200) =>
        \A i \in 1..Len(resp.tweets) :
            \A t \in tweets :
                t.id = resp.tweets[i] => t.author_id \in FollowingIds(resp.user)

(***************************************************************************)
(* Deliveries at the grain of their awaits.  send_personal_message         *)
(* iterates the set of the key itself and awaits send_json inside the      *)
(* loop, so the event loop can run a connect or a disconnect while a send  *)
(* is in flight.  When the loop asks the set iterator for the next         *)
(* WebSocket and the set has another size than when the iterator was made, *)
(* Python raises RuntimeError("Set changed size during iteration"): the    *)
(* for statement is outside the try of the loop body, _listen_to_redis     *)
(* catches json.JSONDecodeError only around _handle_realtime_event, and    *)
(* its outer except ends the task.  While an event is being handled,       *)
(* handled is the position of the listener:                                *)
(*   keys          the user ids send_personal_message is still to be       *)
(*                 called with,                                            *)
(*   user          the key whose set is being iterated (NoKey between two  *)
(*                 calls),                                                 *)
(*   members       the set as it was when the iterator was made,           *)
(*   visited       the WebSockets the iterator has handed out,             *)
(*   at            the WebSocket whose send_json is awaited,               *)
(*   disconnected  the local set of the same name,                         *)
(*   log           what each WebSocket has received, oldest first.         *)
(* The tweets of a run are deleted oldest first by their author, so the    *)
(* tweet_deleted events are published in ascending order of tweet_id.      *)
(***************************************************************************)
\* Tweets posted in one run of SpecDelivery.
MaxDeliveryTweets == 2

NoKey == <<>>

\* What the WebSockets have received so far.
LogOf(h) ==
    IF "log" \in DOMAIN h THEN h.log ELSE [ws \in WebSockets |-> <<>>]

\* Mutation of next_message: the listener is handed the newest message of
\* the channel first.
newest_message(messages) ==
    [event |-> messages[Len(messages)],
     rest |-> SubSeq(messages, 1, Len(messages) - 1)]

\* async for message in pubsub.listen(): the messages come in the order
\* Redis got them.
next_message(messages) == [event |-> Head(messages), rest |-> Tail(messages)]

\* The user ids _handle_realtime_event calls send_personal_message with:
\* follower_ids for a new_tweet event, list(self.active_connections.keys())
\* for a tweet_deleted event.
event_user_ids(conns, event) ==
    IF event.type = "new_tweet" THEN {PyInt(f) : f \in event.follower_ids}
    ELSE IF event.type = "tweet_deleted" THEN DOMAIN conns
    ELSE {}

\* The listener from a point where no send is awaited up to its next await:
\* the set of the positions it can reach, each with the registry it leaves.
\* A key that is not registered is skipped.  The iterator of a set that was
\* not touched hands out the remaining WebSockets (lowest first here); when
\* the size differs it raises; when the size is the same but the members are
\* not (a connect and a disconnect during one send), it hands out any
\* WebSocket it has not handed out or stops, and if none of the old members
\* is left the key may have been deleted and made anew, so that the iterated
\* set is the old, empty one and the iterator raises.
RECURSIVE Resume(_, _)
Resume(h, conns) ==
    IF h.user = NoKey
    THEN IF h.keys = {}
         THEN {[handled |-> [type |-> "sent", event |-> h.event, log |-> h.log],
                active_connections |-> conns]}
         ELSE LET user_id == CHOOSE k \in h.keys : TRUE
                  later == [h EXCEPT !.keys = @ \ {user_id}]
              IN  IF user_id \in DOMAIN conns
                  THEN Resume([later EXCEPT !.user = user_id,
                                            !.members = conns[user_id],
                                            !.visited = {},
                                            !.disconnected = {}], conns)
                  ELSE Resume(later, conns)
    ELSE LET S == IF h.user \in DOMAIN conns THEN conns[h.user] ELSE {}
             rest == S \ h.visited
             Await(ws) == [handled |-> [h EXCEPT !.at = ws,
                                                 !.visited = @ \cup {ws}],
                           active_connections |-> conns]
             EndLoop == Resume([h EXCEPT !.user = NoKey],
                               [conns EXCEPT ![h.user] = @ \ h.disconnected])
             Raise == [handled |-> [type |-> "raised", event |-> h.event,
                                    log |-> h.log],
                       active_connections |-> conns]
         IN  IF Cardinality(S) # Cardinality(h.members) THEN {Raise}
             ELSE IF S = h.members
             THEN IF rest = {} THEN EndLoop
                  ELSE {Await(CHOOSE ws \in rest : \A o \in rest : ws <= o)}
             ELSE (IF S \cap h.members = {} THEN {Raise} ELSE {})
                      \cup EndLoop \cup {Await(ws) : ws \in rest}

\* The listener after the step that took it to position r: an exception that
\* left _handle_realtime_event ends the task, which unsubscribes.
listener_after(ps, r) ==
    IF r.handled.type = "raised"
    THEN [ps EXCEPT !.tasks = @ \ {ps.task}, !.listening = FALSE,
                    !.messages = <<>>]
    ELSE ps

\* The listener takes the next message and handles it up to its first await.
DeliverTake ==
    LET m == next_message(pubsub.messages)
        start == [type |-> "sending", event |-> m.event,
                  keys |-> event_user_ids(active_connections, m.event),
                  user |-> NoKey, members |-> {}, visited |-> {},
                  at |-> NoId, disconnected |-> {}, log |-> LogOf(handled)]
    IN  /\ pubsub.listening
        /\ pubsub.messages # <<>>
        /\ handled.type # "sending"
        /\ \E r \in Resume(start, active_connections) :
               /\ handled' = r.handled
               /\ active_connections' = r.active_connections
               /\ pubsub' = listener_after([pubsub EXCEPT !.messages = m.rest], r)
        /\ resp' = IdleResp
        /\ UNCHANGED <<fanouts, cfg, tweets, nextId, follows, followers_count,
                       timeline, timeline_ttl, celebrity_tweets, celebrity_ttl,
                       deleted, pager, websockets>>

\* The awaited send_json returns (the WebSocket has the event) or raises (it
\* goes to disconnected), and the listener runs on to its next await.  A
\* send to a WebSocket that was closed in the meantime can have done either.
DeliverSent ==
    LET ws == handled.at
        Outcomes == IF websockets[ws].state = "open" THEN {TRUE}
                    ELSE IF websockets[ws].state = "broken" THEN {FALSE}
                    ELSE {TRUE, FALSE}
        After(ok) ==
            [handled EXCEPT
                 !.at = NoId,
                 !.disconnected = IF ok THEN @ ELSE @ \cup {ws},
                 !.log = IF ok THEN [@ EXCEPT ![ws] = Append(@, handled.event)]
                         ELSE @]
    IN  /\ handled.type = "sending"
        /\ \E ok \in Outcomes :
               \E r \in Resume(After(ok), active_connections) :
                   /\ handled' = r.handled
                   /\ active_connections' = r.active_connections
                   /\ pubsub' = listener_after(pubsub, r)
        /\ resp' = IdleResp
        /\ UNCHANGED <<fanouts, cfg, tweets, nextId, follows, followers_count,
                       timeline, timeline_ttl, celebrity_tweets, celebrity_ttl,
                       deleted, pager, websockets>>

NextDelivery ==
    \/ /\ nextId <= MaxDeliveryTweets
       /\ \E user_id \in FaultAuthors : CreateTweet(user_id, NoId, NoFault)
    \/ \E user_id \in FaultAuthors, tweet_id \in TweetIds :
           /\ \A other \in TweetIds : tweet_id <= other
           /\ DeleteTweet(user_id, tweet_id, NoFault, "nullify")
    \/ RealtimeConnect
    \/ RealtimeBreak
    \/ RealtimeDisconnect
    \/ DeliverTake
    \/ DeliverSent

SpecDelivery == Init /\ [][NextDelivery]_vars

\* C34: the listener task does not end because of the handling of an event:
\* once it was started and has taken an event, it is still running, whatever
\* connects, disconnects and failing sends happened during the sends.
C34_ListenerSurvivesDelivery ==
    handled.type # "none" => pubsub.task \in pubsub.tasks

\* The tweet_deleted events a WebSocket has received, as tweet ids.
DeletedIdsOf(ws) ==
    LET log == LogOf(handled)[ws]
    IN  [i \in DOMAIN log |-> log[i].tweet_id]

\* C39: the events a WebSocket has received are in the order they were
\* published in: of two tweet_deleted events, the one of the tweet deleted
\* first (the lower id) is the earlier one in its log.
C39_ReceivedInPublicationOrder ==
    \A ws \in WebSockets :
        \A i, j \in DOMAIN DeletedIdsOf(ws) :
            i < j => DeletedIdsOf(ws)[i] < DeletedIdsOf(ws)[j]

\* One WebSocket has received the events of both deleted tweets.
C39_Witness ==
    \E ws \in WebSockets :
        /\ Len(LogOf(handled)[ws]) = 2
        /\ websockets[ws].state = "open"

====
